---- MODULE Spec2Model ----
(***************************************************************************)
(* Model of the iot-xray-system ingestion pipeline:                        *)
(*   RabbitMQService  (rabbitmq.service.ts, src/unnamed/part_005)          *)
(*   SignalsService   (signals.service.ts, in signal.schema.ts 679-1124)   *)
(*   the Nest module wiring (rabbitmq.module.ts, SignalsModule,            *)
(*   ProducerModule), each of which lists RabbitMQService as a provider.   *)
(* Numbers of the wire format are modelled as integers.                    *)
(***************************************************************************)
EXTENDS Integers, Sequences, FiniteSets, TLC

\* ------------------------------------------------------------------ bounds
\* Messages that may ever be published to the exchange.
MaxMsgs == 2
\* onModuleInit invocations beyond the one Nest makes per instance at
\* start-up (external restarts of a component), over all instances.
MaxRestarts == 1
\* Broker faults (amqp.connect refused, connection lost), over all instances.
MaxFaults == 1

\* simulateDevice calls that create a timer.
MaxTimers == 2
\* Ticks of the simulation timers, over all timers.
MaxTicks == 3
\* Messages the ProducerService may publish.
MaxSends == 4
\* The largest count passed to sendBulkMessages / sendRandomData.
MaxCount == 2
\* Documents ever inserted by the calls of the store API.
MaxDocs == 2
\* Samples of a Reading handed to calculateSignalMetrics.
MaxSamples == 2

\* ------------------------------------------------------- program constants
exchangeName == "x-ray-exchange"
queueName == "x-ray-queue"
routingKey == ""

\* The modules whose providers list contains RabbitMQService: Nest builds one
\* RabbitMQService instance per such module.
Instances == {"RabbitMQModule", "SignalsModule", "ProducerModule"}

\* The instance injected into SignalsService (the provider of its own module).
SignalsInstance == "SignalsModule"

NULL == "null"
REF == "ref"

\* deviceIds: one matching the schema's /^[a-f0-9]{24}$/, one that does not.
HexDevice == "66bb584d4ae73e488c30a072"
HexDevice2 == "66bb584d4ae73e488c30a073"
TestDevice == "test-device-123"

\* Samples [relativeTimestamp, [lat, lng, speed]].
Sample1 == <<762, <<51, 12, 1>>>>
Sample2 == <<1766, <<53, 14, 3>>>>
Sample3 == <<2763, <<51, 12, 2>>>>

\* The catalog held in this.xrayData once the service is initialised:
\* deviceId -> stored samples.
SampleCatalog == (HexDevice :> <<Sample1, Sample2>>) @@ (HexDevice2 :> <<Sample3>>)

\* The (deviceId, data) parts of the Readings that callers publish.
ReadingInputs ==
    { [deviceId |-> HexDevice, data |-> <<Sample1, Sample2>>],
      [deviceId |-> TestDevice, data |-> <<Sample1>>] }

\* ------------------------------------------------------------------- JSON
\* A payload is a sequence of tokens: punctuation [p], object key [k],
\* string [s], number [n], or raw text that is no JSON token [x].
Punct(c) == [p |-> c]

RECURSIVE StringifyNumbers(_, _), StringifySamples(_, _)
\* The elements k.. of an array of numbers.
StringifyNumbers(a, k) ==
    IF k > Len(a) THEN <<>> ELSE <<[n |-> a[k]]>> \o StringifyNumbers(a, k + 1)

\* One sample [number, [number, ...]].
StringifySample(e) ==
    <<Punct("["), [n |-> e[1]], Punct("[")>> \o StringifyNumbers(e[2], 1)
    \o <<Punct("]"), Punct("]")>>

\* The elements k.. of the data array.
StringifySamples(d, k) ==
    IF k > Len(d) THEN <<>> ELSE StringifySample(d[k]) \o StringifySamples(d, k + 1)

\* JSON.stringify(data) for an XRayData {deviceId, data, time}.
Stringify(data) ==
    <<Punct("{"), [k |-> "deviceId"], [s |-> data.deviceId], [k |-> "data"]>>
    \o <<Punct("[")>> \o StringifySamples(data.data, 1) \o <<Punct("]")>>
    \o <<[k |-> "time"], [n |-> data.time], Punct("}")>>

ParseFail == [ok |-> FALSE, val |-> <<>>, next |-> 0]

RECURSIVE ParseValue(_, _), ParseElems(_, _, _), ParseMembers(_, _, _)
\* One JSON value starting at token i: [ok, val, next]. The result r of a
\* nested value is bound by a set constructor, so that it is computed once.
ParseValue(t, i) ==
    IF i > Len(t) THEN ParseFail
    ELSE IF "n" \in DOMAIN t[i] THEN [ok |-> TRUE, val |-> t[i].n, next |-> i + 1]
    ELSE IF "s" \in DOMAIN t[i] THEN [ok |-> TRUE, val |-> t[i].s, next |-> i + 1]
    ELSE IF t[i] = Punct("[") THEN ParseElems(t, i + 1, <<>>)
    ELSE IF t[i] = Punct("{") THEN ParseMembers(t, i + 1, <<>>)
    ELSE ParseFail

ParseElems(t, i, acc) ==
    IF i > Len(t) THEN ParseFail
    ELSE IF t[i] = Punct("]") THEN [ok |-> TRUE, val |-> acc, next |-> i + 1]
    ELSE CHOOSE rest \in { IF r.ok THEN ParseElems(t, r.next, Append(acc, r.val))
                            ELSE ParseFail : r \in {ParseValue(t, i)} } : TRUE

ParseMembers(t, i, obj) ==
    IF i > Len(t) THEN ParseFail
    ELSE IF t[i] = Punct("}") THEN [ok |-> TRUE, val |-> obj, next |-> i + 1]
    ELSE IF "k" \in DOMAIN t[i]
         THEN CHOOSE rest \in { IF r.ok
                                 THEN ParseMembers(t, r.next, (t[i].k :> r.val) @@ obj)
                                 ELSE ParseFail : r \in {ParseValue(t, i + 1)} } : TRUE
    ELSE ParseFail

\* JSON.parse(msg.content.toString()): ok = FALSE is the SyntaxError.
JSONparse(t) ==
    LET r == ParseValue(t, 1)
    IN IF r.ok /\ r.next = Len(t) + 1
       THEN [ok |-> TRUE, val |-> r.val]
       ELSE [ok |-> FALSE, val |-> <<>>]

\* Payloads that reach the queue from publishers other than publishXRayData:
\* text that is not JSON, a truncated document, and the JSON document {}.
InvalidJson == <<[x |-> "invalid json"]>>
TruncatedJson == <<Punct("{"), [k |-> "deviceId"], [s |-> HexDevice]>>
EmptyObjectJson == <<Punct("{"), Punct("}")>>
ForeignPayloads == {InvalidJson, TruncatedJson, EmptyObjectJson}

\* ------------------------------------------------- ProducerService (data)
\* createSampleData(): the built-in device with its three samples.
createSampleData == HexDevice :> <<Sample1, Sample2, Sample3>>

\* x-ray.json as JSON.stringify writes a catalog {deviceId: {data, time}}
\* holding the one device HexDevice2.
CatalogJson ==
    <<Punct("{"), [k |-> HexDevice2], Punct("{"), [k |-> "data"], Punct("[")>>
    \o StringifySamples(<<Sample3>>, 1)
    \o <<Punct("]"), [k |-> "time"], [n |-> 1], Punct("}"), Punct("}")>>

\* x-ray.json in the working directory: fs.existsSync(dataPath), whether
\* fs.readFileSync(dataPath, 'utf8') returns, and the text it returns.
XRayFiles ==
    { [exists |-> FALSE, readable |-> FALSE, content |-> <<>>],
      [exists |-> TRUE, readable |-> FALSE, content |-> <<>>] }
    \cup [exists : {TRUE}, readable : {TRUE},
          content : {InvalidJson, TruncatedJson, EmptyObjectJson, CatalogJson}]

\* A loadXRayData whose catch block leaves the catalog empty.
loadXRayData_noFallback(file) ==
    IF ~file.exists THEN createSampleData
    ELSE IF file.readable /\ JSONparse(file.content).ok
         THEN LET parsed == JSONparse(file.content).val
              IN [d \in DOMAIN parsed |-> parsed[d].data]
         ELSE <<>>

\* loadXRayData(): the value of this.xrayData when it returns. The model
\* keeps the data array of each entry of the parsed document.
loadXRayData(file) ==
    IF ~file.exists THEN createSampleData
    ELSE IF file.readable /\ JSONparse(file.content).ok
         THEN LET parsed == JSONparse(file.content).val
              IN [d \in DOMAIN parsed |-> parsed[d].data]
         ELSE createSampleData

\* ------------------------------------------------ SignalsService (metrics)
\* A reduce that counts the elements instead of adding them.
SumSeq_count(q, k) == IF k > Len(q) THEN 0 ELSE Len(q) - k + 1

RECURSIVE SumSeq(_, _)
SumSeq(q, k) == IF k > Len(q) THEN 0 ELSE q[k] + SumSeq(q, k + 1)

\* The first element taken for the maximum.
SeqMax_first(q) == q[1]

SeqMax(q) == CHOOSE m \in {q[k] : k \in 1..Len(q)} : \A k \in 1..Len(q) : q[k] <= m
SeqMin(q) == CHOOSE m \in {q[k] : k \in 1..Len(q)} : \A k \in 1..Len(q) : m <= q[k]

RECURSIVE FilterDefined(_, _, _)
\* .filter(... !== undefined): the samples from k on whose coordinate array
\* has an element at (0-based) index n - 1.
FilterDefined(data, n, k) ==
    IF k > Len(data) THEN <<>>
    ELSE (IF Len(data[k][2]) >= n THEN <<data[k]>> ELSE <<>>)
         \o FilterDefined(data, n, k + 1)

\* An arithmetic mean, kept exact as the pair sum / count.
\* A mean cut down to a whole number of units.
Mean_floor(q) == [num |-> SumSeq(q, 1) \div Len(q), den |-> 1]

Mean(q) == [num |-> SumSeq(q, 1), den |-> Len(q)]
\* A default of one instead of zero.
Zero_one == [num |-> 1, den |-> 1]

Zero == [num |-> 0, den |-> 1]

\* calculateSignalMetrics(xrayData) for a decoded object: ok = FALSE is the
\* TypeError of data.length / data.reduce when the object has no data array.
calculateSignalMetrics(xrayData) ==
    IF "data" \notin DOMAIN xrayData
    THEN [ok |-> FALSE, dto |-> <<>>]
    ELSE
    LET data == xrayData.data
        dataLength == Len(data)
        lens == [k \in 1..Len(data) |-> Len(data[k][2])]
        dataVolume == SumSeq(lens, 1)
        withSpeed == FilterDefined(data, 3, 1)
        speeds == [k \in 1..Len(withSpeed) |-> withSpeed[k][2][3]]
        valid == FilterDefined(data, 2, 1)
        lats == [k \in 1..Len(valid) |-> valid[k][2][1]]
        lngs == [k \in 1..Len(valid) |-> valid[k][2][2]]
    IN [ok |-> TRUE,
        dto |-> [deviceId |-> IF "deviceId" \in DOMAIN xrayData
                              THEN xrayData.deviceId ELSE "undefined",
                 timestamp |-> IF "time" \in DOMAIN xrayData
                               THEN xrayData.time ELSE 0,
                 data |-> data,
                 dataLength |-> dataLength,
                 dataVolume |-> dataVolume,
                 averageSpeed |-> IF Len(speeds) > 0 THEN Mean(speeds) ELSE Zero,
                 maxSpeed |-> IF Len(speeds) > 0 THEN SeqMax(speeds) ELSE 0,
                 minSpeed |-> IF Len(speeds) > 0 THEN SeqMin(speeds) ELSE 0,
                 coordinates |-> IF Len(valid) > 0
                                 THEN <<Mean(lats), Mean(lngs)>>
                                 ELSE <<Zero, Zero>>]]

\* The Signal schema's validators, run by signalModel.create before the
\* document is written.
SchemaValid(dto) ==
    /\ dto.deviceId \in {HexDevice, HexDevice2}   \* match /^[a-f0-9]{24}$/
    /\ dto.dataLength >= 1                   \* min: 1
    /\ dto.dataVolume >= 3                   \* min: 3
    /\ dto.averageSpeed.num >= 0             \* min: 0
    /\ dto.maxSpeed >= 0
    /\ dto.minSpeed >= 0
    /\ Len(dto.coordinates) = 2
    /\ \A c \in 1..2 :
          LET lim == IF c = 1 THEN 90 ELSE 180
          IN /\ dto.coordinates[c].num >= -lim * dto.coordinates[c].den
             /\ dto.coordinates[c].num <= lim * dto.coordinates[c].den

\* SignalSchema.pre('save'): dataVolume is forced to dataLength * 3.
PreSave(dto) ==
    IF dto.dataLength # 0 /\ dto.dataVolume # dto.dataLength * 3
    THEN [dto EXCEPT !.dataVolume = dto.dataLength * 3]
    ELSE dto

\* ------------------------------------------------------------------ state
VARIABLES
    connection,   \* [Instances -> {NULL, REF}]: this.connection
    channel,      \* [Instances -> {NULL, REF}]: this.channel
    link,         \* state of the connection object this.connection refers to
    chan,         \* state of the channel object this.channel refers to
    consuming,    \* the instance's consumer is registered on x-ray-queue
    pc,           \* position of the instance inside connect() / disconnect()
    trace,        \* broker calls of the current connect(): <<[op, ok], ...>>
    initResult,   \* outcome of the last onModuleInit: [status, error]
    inits,        \* onModuleInit invocations per instance
    connects,     \* amqp.connect calls per instance
    faults,       \* broker faults so far
    destroyed,    \* onModuleDestroy has returned since the last onModuleInit
    listeners,    \* number of 'xray-data' listeners per instance
    exchanges,    \* broker: declared exchanges
    queues,       \* broker: declared queues
    bindings,     \* broker: bindings
    queue,        \* broker: the ready messages of x-ray-queue, oldest first
    nextMsg,      \* id of the next message, also the clock read by Date.now()
    published,    \* every message handed to the exchange: {[id, via, content, reading]}
    acked,        \* ids of the messages acknowledged by a consumer
    nacked,       \* the negative acknowledgements: {[id, allUpTo, requeue, redelivery]}
    emitted,      \* ids of the messages for which 'xray-data' was emitted
    handled,      \* ids of the messages whose Reading reached the ingestion handler
    inflight,     \* processXRayData calls awaiting signalModel.create
    failed,       \* ids of the messages whose processXRayData call rejected
    signals,      \* the 'signals' collection
    nextSignalId, \* the next document _id
    lastPublish,  \* outcome of the last publishXRayData call
    timers,       \* ProducerService: the interval timers created by simulateDevice
    simulationIntervals, \* ProducerService: Map deviceId -> timer
    sim,          \* the last simulation-control call and its outcome
    lastTick,     \* the last tick of a simulation timer
    call,         \* the current or last send call (single, bulk, random)
    metrics,      \* the last calculateSignalMetrics call: its argument and result
    api,          \* the last call of the SignalsService store API and its outcome
    xrayData,     \* ProducerService: this.xrayData, deviceId -> stored samples
    load          \* the last onModuleInit of the ProducerService: [called, nodeEnv, file]

vars == <<connection, channel, link, chan, consuming, pc, trace, initResult,
          inits, connects, faults, destroyed, listeners, exchanges, queues,
          bindings, queue,
          nextMsg, published, acked, nacked, emitted, handled, inflight, failed, signals,
          nextSignalId, lastPublish, timers, simulationIntervals, sim, lastTick,
          call, metrics, api, xrayData, load>>

svcVars == <<connection, channel, link, chan, consuming, pc, trace, initResult,
             inits, connects, faults, destroyed>>
brokerVars == <<exchanges, queues, bindings>>
msgVars == <<queue, nextMsg, published, acked, nacked, emitted, handled, inflight, failed,
             signals, nextSignalId, lastPublish>>
prodVars == <<timers, simulationIntervals, sim, lastTick, call, xrayData, load>>
appVars == <<prodVars, metrics, api>>

\* What the service declares in setupQueue.
XRayExchange == [name |-> exchangeName, type |-> "fanout", durable |-> TRUE]
XRayQueue == [name |-> queueName, durable |-> TRUE]
XRayBinding == [queue |-> queueName, exchange |-> exchangeName, key |-> routingKey]

\* An exchange of the same name declared beforehand with other parameters.
ConflictingExchange == [name |-> exchangeName, type |-> "direct", durable |-> TRUE]

NoReading == [deviceId |-> "", data |-> <<>>, time |-> 0]
NoResult == [status |-> "none", error |-> "none"]
NoPublish == [result |-> "none", enqueued |-> FALSE, active |-> FALSE]
NoSim == [op |-> "none", arg |-> "", result |-> [text |-> "none", deviceId |-> ""]]
NoTick == [timer |-> 0, k |-> 0, index |-> 0, result |-> "none", data |-> <<>>]
NoCount == [given |-> FALSE, value |-> 0]
\* An optional argument or filter field: omitted, or given with a value.
Opt(v) == [given |-> TRUE, value |-> v]
NoStr == [given |-> FALSE, value |-> ""]
ZeroStats == [totalSignals |-> 0, totalDevices |-> 0,
              averageDataLength |-> [num |-> 0, den |-> 100],
              averageDataVolume |-> [num |-> 0, den |-> 100],
              averageSpeed |-> [num |-> 0, den |-> 100],
              maxSpeed |-> 0, minSpeed |-> 0]
\* No call yet. An id argument is a well-formed ObjectId (valid, n) or a
\* string that is none.
NoApi == [op |-> "none",
          filter |-> [deviceId |-> NoStr, startTime |-> NoCount, endTime |-> NoCount,
                      limit |-> NoCount, skip |-> NoCount],
          deviceId |-> NoStr, id |-> [valid |-> FALSE, n |-> 0],
          status |-> "none", docs |-> <<>>, stats |-> ZeroStats]
NoMetrics == [called |-> FALSE, input |-> NoReading,
              result |-> [ok |-> FALSE, dto |-> <<>>],
              kept |-> [input |-> NoReading, result |-> [ok |-> FALSE, dto |-> <<>>]]]
NoLoad == [called |-> FALSE, nodeEnv |-> "", file |-> [exists |-> FALSE, readable |-> FALSE,
                                                    content |-> <<>>]]
NoCall == [op |-> "none", ids |-> <<>>, arg |-> NoCount, count |-> 0, d |-> 1, i |-> 0,
           running |-> FALSE, result |-> [text |-> "none", deviceId |-> ""],
           sent |-> <<>>]

Init ==
    /\ connection = [i \in Instances |-> NULL]
    /\ channel = [i \in Instances |-> NULL]
    /\ link = [i \in Instances |-> "none"]
    /\ chan = [i \in Instances |-> "none"]
    /\ consuming = [i \in Instances |-> FALSE]
    /\ pc = [i \in Instances |-> "idle"]
    /\ trace = [i \in Instances |-> <<>>]
    /\ initResult = [i \in Instances |-> NoResult]
    /\ inits = [i \in Instances |-> 0]
    /\ connects = [i \in Instances |-> 0]
    /\ faults = 0
    /\ destroyed = [i \in Instances |-> FALSE]
    /\ listeners = [i \in Instances |-> 0]
    /\ exchanges \in {{}, {ConflictingExchange}}
    /\ queues = {}
    /\ bindings = {}
    /\ queue = <<>>
    /\ nextMsg = 1
    /\ published = {}
    /\ acked = {}
    /\ nacked = {}
    /\ emitted = {}
    /\ handled = {}
    /\ inflight = {}
    /\ failed = {}
    /\ signals = {}
    /\ nextSignalId = 1
    /\ lastPublish = NoPublish
    /\ timers = <<>>
    /\ simulationIntervals = <<>>
    /\ sim = NoSim
    /\ lastTick = NoTick
    /\ call = NoCall
    /\ metrics = NoMetrics
    /\ api = NoApi
    /\ xrayData = SampleCatalog
    /\ load = NoLoad

\* The application started against a broker on which nothing is declared yet.
InitFresh == Init /\ exchanges = {}

\* ------------------------------------------- RabbitMQService: connect()
\* connect() with startConsumer called before setupQueue.
AfterStep_consumeFirst(step) ==
    CASE step = "amqpConnect" -> "createChannel"
      [] step = "createChannel" -> "consume"
      [] step = "consume" -> "assertExchange"
      [] step = "assertExchange" -> "assertQueue"
      [] step = "assertQueue" -> "bindQueue"
      [] step = "bindQueue" -> "idle"

\* The statement that follows a successful step of connect(): amqp.connect,
\* createChannel, then setupQueue (assertExchange, assertQueue, bindQueue),
\* then startConsumer (consume).
AfterStep(step) ==
    CASE step = "amqpConnect" -> "createChannel"
      [] step = "createChannel" -> "assertExchange"
      [] step = "assertExchange" -> "assertQueue"
      [] step = "assertQueue" -> "bindQueue"
      [] step = "bindQueue" -> "consume"
      [] step = "consume" -> "idle"

\* A catch block that tries the failed step again instead of rethrowing.
OnFailure_retry(step) == step

\* The catch blocks of setupQueue, startConsumer and connect log and rethrow:
\* connect() ends, nothing is retried.
OnFailure(step) == "idle"

\* A 'close' handler that calls connect() again.
OnConnectionEvent_reconnect(at) == IF at = "idle" THEN "amqpConnect" ELSE at

\* The 'error' and 'close' handlers of the connection only log: the service
\* stays where it is.
OnConnectionEvent(at) == at

Log(i, op, ok) == [trace EXCEPT ![i] = Append(@, [op |-> op, ok |-> ok])]

\* The effect of one awaited step of connect() on the service's position.
Advance(i, step, ok) ==
    /\ trace' = Log(i, step, ok)
    /\ pc' = [pc EXCEPT ![i] = IF ok THEN AfterStep(step) ELSE OnFailure(step)]
    /\ initResult' =
         [initResult EXCEPT ![i] =
            IF ~ok THEN [status |-> "rejected", error |-> step]
            ELSE IF AfterStep(step) = "idle" THEN [status |-> "resolved", error |-> "none"]
            ELSE @]

\* No other instance is inside a lifecycle hook: Nest awaits the hooks of one
\* module before it calls those of the next.
OthersIdle(i) == \A j \in Instances \ {i} : pc[j] = "idle"

RECURSIVE SumOver(_, _)
SumOver(f, S) == IF S = {} THEN 0
                 ELSE LET x == CHOOSE x \in S : TRUE IN f[x] + SumOver(f, S \ {x})

\* onModuleInit invocations that were not the first of their instance.
Restarts == SumOver([i \in Instances |-> IF inits[i] > 1 THEN inits[i] - 1 ELSE 0],
                    Instances)

\* onModuleInit(): await this.connect().
OnModuleInit(i) ==
    /\ pc[i] = "idle"
    /\ OthersIdle(i)
    /\ pc' = [pc EXCEPT ![i] = "amqpConnect"]
    /\ inits' = [inits EXCEPT ![i] = @ + 1]
    /\ trace' = [trace EXCEPT ![i] = <<>>]
    /\ initResult' = [initResult EXCEPT ![i] = [status |-> "pending", error |-> "none"]]
    /\ destroyed' = [destroyed EXCEPT ![i] = FALSE]
    /\ UNCHANGED <<connection, channel, link, chan, consuming, connects, faults,
                   listeners, brokerVars, msgVars>>

\* Nest calls the hook once per instance when the application starts.
\* SignalsModule lists SignalsService before RabbitMQService: its hook has
\* registered the listener when this one is called.
Startup(i) ==
    /\ inits[i] = 0
    /\ i = SignalsInstance => listeners[i] > 0
    /\ OnModuleInit(i)

\* The hook is invoked again from outside, on a service that has lost its
\* channel.
Restart(i) ==
    /\ inits[i] > 0
    /\ chan[i] # "open"
    /\ Restarts < MaxRestarts
    /\ OnModuleInit(i)

\* this.connection = await amqp.connect(rabbitmqUrl)
AmqpConnect(i) ==
    /\ pc[i] = "amqpConnect"
    /\ \E ok \in {b \in BOOLEAN : b \/ faults < MaxFaults} :
         /\ Advance(i, "amqpConnect", ok)
         /\ connection' = IF ok THEN [connection EXCEPT ![i] = REF] ELSE connection
         /\ link' = IF ok THEN [link EXCEPT ![i] = "open"] ELSE link
         /\ faults' = IF ok THEN faults ELSE faults + 1
    /\ connects' = [connects EXCEPT ![i] = @ + 1]
    /\ UNCHANGED <<channel, chan, consuming, inits, destroyed, listeners, brokerVars,
                   msgVars>>

\* this.channel = await this.connection.createChannel()
CreateChannel(i) ==
    /\ pc[i] = "createChannel"
    /\ LET ok == link[i] = "open"
       IN /\ Advance(i, "createChannel", ok)
          /\ channel' = IF ok THEN [channel EXCEPT ![i] = REF] ELSE channel
          /\ chan' = IF ok THEN [chan EXCEPT ![i] = "open"] ELSE chan
    /\ UNCHANGED <<connection, link, consuming, inits, connects, faults, destroyed, listeners,
                   brokerVars, msgVars>>

\* A failed declaration is a channel error: the broker closes the channel.
ChanAfter(i, ok) == IF ok THEN chan ELSE [chan EXCEPT ![i] = IF @ = "open" THEN "closed" ELSE @]

\* setupQueue: await this.channel.assertExchange(exchangeName, 'fanout', {durable: true})
AssertExchange(i) ==
    /\ pc[i] = "assertExchange"
    /\ LET ok == /\ channel[i] # NULL
                 /\ chan[i] = "open"
                 /\ \A e \in exchanges : e.name = exchangeName => e = XRayExchange
       IN /\ Advance(i, "assertExchange", ok)
          /\ exchanges' = IF ok THEN exchanges \cup {XRayExchange} ELSE exchanges
          /\ chan' = ChanAfter(i, ok)
    /\ UNCHANGED <<connection, channel, link, consuming, inits, connects, faults, destroyed,
                   listeners, queues, bindings, msgVars>>

\* setupQueue: await this.channel.assertQueue(queueName, {durable: true})
AssertQueue(i) ==
    /\ pc[i] = "assertQueue"
    /\ LET ok == /\ chan[i] = "open"
                 /\ \A q \in queues : q.name = queueName => q = XRayQueue
       IN /\ Advance(i, "assertQueue", ok)
          /\ queues' = IF ok THEN queues \cup {XRayQueue} ELSE queues
          /\ chan' = ChanAfter(i, ok)
    /\ UNCHANGED <<connection, channel, link, consuming, inits, connects, faults, destroyed,
                   listeners, exchanges, bindings, msgVars>>

\* setupQueue: await this.channel.bindQueue(queueName, exchangeName, routingKey)
BindQueue(i) ==
    /\ pc[i] = "bindQueue"
    /\ LET ok == /\ chan[i] = "open"
                 /\ \E q \in queues : q.name = queueName
                 /\ \E e \in exchanges : e.name = exchangeName
       IN /\ Advance(i, "bindQueue", ok)
          /\ bindings' = IF ok THEN bindings \cup {XRayBinding} ELSE bindings
          /\ chan' = ChanAfter(i, ok)
    /\ UNCHANGED <<connection, channel, link, consuming, inits, connects, faults, destroyed,
                   listeners, exchanges, queues, msgVars>>

\* startConsumer: await this.channel.consume(queueName, callback)
Consume(i) ==
    /\ pc[i] = "consume"
    /\ LET ok == /\ channel[i] # NULL
                 /\ chan[i] = "open"
                 /\ \E q \in queues : q.name = queueName
       IN /\ Advance(i, "consume", ok)
          /\ consuming' = [consuming EXCEPT ![i] = ok]
          /\ chan' = ChanAfter(i, ok)
    /\ UNCHANGED <<connection, channel, link, inits, connects, faults, destroyed, listeners,
                   brokerVars, msgVars>>

\* The broker connection is lost (an 'error' followed by 'close', or a plain
\* 'close'): the connection object becomes closed, its channel and consumer
\* are gone, and the service's handlers run.
ConnectionLost(i) ==
    /\ link[i] = "open"
    /\ faults < MaxFaults
    /\ faults' = faults + 1
    /\ link' = [link EXCEPT ![i] = "closed"]
    /\ chan' = [chan EXCEPT ![i] = IF @ = "open" THEN "closed" ELSE @]
    /\ consuming' = [consuming EXCEPT ![i] = FALSE]
    /\ pc' = [pc EXCEPT ![i] = OnConnectionEvent(@)]
    /\ UNCHANGED <<connection, channel, trace, initResult, inits, connects,
                   destroyed, listeners, brokerVars, msgVars>>

\* ---------------------------------------- RabbitMQService: disconnect()
\* onModuleDestroy(): await this.disconnect(). The first statement that has
\* something to close is reached; with nothing to close disconnect() returns.
OnModuleDestroy(i) ==
    /\ pc[i] = "idle"
    /\ OthersIdle(i)
    /\ inits[i] > 0
    /\ ~destroyed[i]
    /\ pc' = [pc EXCEPT ![i] = IF channel[i] # NULL THEN "channelClose"
                               ELSE IF connection[i] # NULL THEN "connectionClose"
                               ELSE "idle"]
    /\ destroyed' = [destroyed EXCEPT ![i] = channel[i] = NULL /\ connection[i] = NULL]
    /\ UNCHANGED <<connection, channel, link, chan, consuming, trace, initResult,
                   inits, connects, faults, listeners, brokerVars, msgVars>>

\* await this.channel.close(); this.channel = null. Closing a channel that
\* is already closed throws: the catch block logs and disconnect() returns.
ChannelClose(i) ==
    /\ pc[i] = "channelClose"
    /\ LET ok == chan[i] = "open"
       IN /\ channel' = IF ok THEN [channel EXCEPT ![i] = NULL] ELSE channel
          /\ chan' = IF ok THEN [chan EXCEPT ![i] = "none"] ELSE chan
          /\ consuming' = IF ok THEN [consuming EXCEPT ![i] = FALSE] ELSE consuming
          /\ pc' = [pc EXCEPT ![i] = IF ok /\ connection[i] # NULL
                                     THEN "connectionClose" ELSE "idle"]
          /\ destroyed' = [destroyed EXCEPT ![i] = ~(ok /\ connection[i] # NULL)]
    /\ UNCHANGED <<connection, link, trace, initResult, inits, connects, faults,
                   listeners, brokerVars, msgVars>>

\* await this.connection.close(); this.connection = null.
ConnectionClose(i) ==
    /\ pc[i] = "connectionClose"
    /\ LET ok == link[i] = "open"
       IN /\ connection' = IF ok THEN [connection EXCEPT ![i] = NULL] ELSE connection
          /\ link' = IF ok THEN [link EXCEPT ![i] = "none"] ELSE link
          /\ chan' = IF ok THEN [chan EXCEPT ![i] = IF @ = "open" THEN "closed" ELSE @]
                     ELSE chan
          /\ consuming' = IF ok THEN [consuming EXCEPT ![i] = FALSE] ELSE consuming
    /\ pc' = [pc EXCEPT ![i] = "idle"]
    /\ destroyed' = [destroyed EXCEPT ![i] = TRUE]
    /\ UNCHANGED <<channel, trace, initResult, inits, connects, faults, listeners,
                   brokerVars, msgVars>>

\* ------------------------------------------- RabbitMQService: status
\* configService.get('RABBITMQ_URL'): unset (or empty), or a custom URL.
ConfigUnset == ""
ConfigValues == {ConfigUnset, "amqp://custom-host:5672"}
DefaultUrl == "amqp://localhost:5672"

\* What reading this.connection.closed may yield: the connection object of
\* amqplib declares no such property (undefined, hence false); an object
\* that maintains one yields TRUE once it is closed.
ClosedReads(i) == {FALSE, link[i] = "closed"}

\* getConnectionStatus() on instance i, for a configured URL and a value read
\* from this.connection.closed.
getConnectionStatus(i, cfg, closed) ==
    LET url == IF cfg # ConfigUnset THEN cfg ELSE DefaultUrl
    IN IF connection[i] = NULL THEN [status |-> "disconnected", url |-> url]
       ELSE IF closed THEN [status |-> "disconnected", url |-> url]
       ELSE [status |-> "connected", url |-> url]

\* ------------------------------------------------------------ publishing
\* The queues an exchange routes a message with this key to.
Route(ex, key) ==
    { b.queue : b \in { b \in bindings :
          /\ b.exchange = ex
          /\ \E e \in exchanges :
                /\ e.name = ex
                /\ (e.type = "fanout" \/ b.key = key) } }

Enqueue(content) ==
    IF queueName \in Route(exchangeName, routingKey)
    THEN Append(queue, [id |-> nextMsg, content |-> content, redelivered |-> FALSE])
    ELSE queue

\* publishXRayData(data) on instance i, data = {deviceId, data, time: Date.now()}.
Publish(i, input) ==
    /\ LET reading == [deviceId |-> input.deviceId, data |-> input.data,
                       time |-> nextMsg]
           active == chan[i] = "open"
       IN IF channel[i] = NULL
          THEN \* throw new Error('Channel not initialized')
               /\ lastPublish' = [result |-> "Channel not initialized",
                                  enqueued |-> FALSE, active |-> active]
               /\ UNCHANGED <<queue, nextMsg, published, chan>>
          ELSE IF chan[i] # "open"
          THEN \* channel.publish on a closed channel throws; the catch rethrows
               /\ lastPublish' = [result |-> "Channel closed",
                                  enqueued |-> FALSE, active |-> active]
               /\ UNCHANGED <<queue, nextMsg, published, chan>>
          ELSE /\ queue' = Enqueue(Stringify(reading))
               /\ nextMsg' = nextMsg + 1
               /\ published' = published \cup
                     {[id |-> nextMsg, via |-> "publishXRayData",
                       content |-> Stringify(reading), reading |-> reading]}
               /\ lastPublish' = [result |-> "ok",
                                  enqueued |-> queue' # queue, active |-> active]
               \* publishing to an exchange that does not exist is a channel error
               /\ chan' = IF \E e \in exchanges : e.name = exchangeName
                          THEN chan ELSE [chan EXCEPT ![i] = "closed"]
    /\ consuming' = [consuming EXCEPT ![i] = consuming[i] /\ chan'[i] = "open"]
    /\ UNCHANGED <<connection, channel, link, pc, trace, initResult, inits,
                   connects, faults, destroyed, listeners, brokerVars, acked, nacked,
                   emitted, handled, inflight,
                   failed, signals, nextSignalId>>

\* A caller of publishXRayData, within the message budget.
PublishXRayData(i, input) ==
    /\ nextMsg <= MaxMsgs
    /\ Publish(i, input)

\* Another client of the broker publishes a payload to x-ray-exchange.
ExternalPublish(content) ==
    /\ nextMsg <= MaxMsgs
    /\ queueName \in Route(exchangeName, routingKey)
    /\ queue' = Enqueue(content)
    /\ nextMsg' = nextMsg + 1
    /\ published' = published \cup
          {[id |-> nextMsg, via |-> "external", content |-> content,
            reading |-> NoReading]}
    /\ UNCHANGED <<svcVars, listeners, brokerVars, acked, nacked, emitted, handled,
                   inflight, failed, signals, nextSignalId, lastPublish>>

\* --------------------------------------------- SignalsService: ingestion
\* SignalsService.onModuleInit(): rabbitMQService.on('xray-data', handler),
\* on the instance injected into SignalsService.
SignalsServiceInit ==
    /\ listeners[SignalsInstance] = 0
    /\ listeners' = [listeners EXCEPT ![SignalsInstance] = @ + 1]
    /\ UNCHANGED <<svcVars, brokerVars, msgVars>>

\* A catch block that rejects the message without requeue.
DecodeFailureDecision_discard == [kind |-> "nack", allUpTo |-> FALSE, requeue |-> FALSE]

\* The decision of the consumer callback when JSON.parse or the emit throws.
DecodeFailureDecision == [kind |-> "nack", allUpTo |-> FALSE, requeue |-> TRUE]

\* A callback that requeues the message after the emit.
EmitReturnedDecision_requeue == [kind |-> "nack", allUpTo |-> FALSE, requeue |-> TRUE]

\* A callback that returns after the emit without acknowledging.
EmitReturnedDecision_none == [kind |-> "none", allUpTo |-> FALSE, requeue |-> FALSE]

\* The decision of the consumer callback after emit('xray-data') returned.
EmitReturnedDecision == [kind |-> "ack", allUpTo |-> FALSE, requeue |-> FALSE]

\* The consumer callback of instance i for message m: what it decides, and
\* the processXRayData calls that the emit started. The listener starts
\* processXRayData and attaches .catch: emit returns normally whatever
\* becomes of the call.
Callback(i, m) ==
    CHOOSE outcome \in
        { LET heard == parsed.ok /\ listeners[i] > 0
          IN [decision |-> IF parsed.ok THEN EmitReturnedDecision
                           ELSE DecodeFailureDecision,
              emitted |-> parsed.ok,
              heard |-> heard,
              started |-> IF heard /\ calc.ok
                          THEN {[id |-> m.id, svc |-> i, dto |-> calc.dto]} ELSE {},
              threw |-> IF heard /\ ~calc.ok THEN {m.id} ELSE {}]
          : parsed \in {JSONparse(m.content)},
            calc \in {calculateSignalMetrics(p.val) : p \in {JSONparse(m.content)}} } : TRUE

RemoveAt(q, k) == SubSeq(q, 1, k - 1) \o SubSeq(q, k + 1, Len(q))

\* The broker delivers the ready message at position k to the consumer of
\* instance i, whose callback runs to completion.
Deliver(i, k) ==
    /\ consuming[i]
    /\ k \in 1..Len(queue)
    /\ LET m == queue[k]
           r == Callback(i, m)
           d == IF channel[i] = NULL THEN [kind |-> "none"] ELSE r.decision
       IN /\ queue' = IF d.kind = "ack" \/ (d.kind = "nack" /\ ~d.requeue)
                      THEN RemoveAt(queue, k)
                      ELSE IF d.kind = "nack"
                      THEN [queue EXCEPT ![k].redelivered = TRUE]
                      ELSE queue
          /\ acked' = IF d.kind = "ack" THEN acked \cup {m.id} ELSE acked
          /\ nacked' = IF d.kind = "nack"
                       THEN nacked \cup {[id |-> m.id, allUpTo |-> d.allUpTo,
                                          requeue |-> d.requeue,
                                          redelivery |-> m.redelivered]}
                       ELSE nacked
          /\ emitted' = IF r.emitted THEN emitted \cup {m.id} ELSE emitted
          /\ handled' = IF r.heard THEN handled \cup {m.id} ELSE handled
          /\ inflight' = inflight \cup r.started
          /\ failed' = failed \cup r.threw
    /\ UNCHANGED <<svcVars, listeners, brokerVars, nextMsg, published, signals,
                   nextSignalId, lastPublish>>

\* The broker cancels the consumer of instance i: the consumer callback is
\* invoked with null, and `if (msg)` skips its whole body.
ConsumerCancelled(i) ==
    /\ consuming[i]
    /\ consuming' = [consuming EXCEPT ![i] = FALSE]
    /\ UNCHANGED <<connection, channel, link, chan, pc, trace, initResult, inits,
                   connects, faults, destroyed, listeners, brokerVars, msgVars>>

\* processXRayData -> createSignal -> signalModel.create(dto) settles: the
\* document is validated, passed through pre('save') and written, or the
\* call rejects (validation error, or the store fails) and the listener's
\* .catch logs the error.
CreateSettles(h) ==
    /\ h \in inflight
    /\ inflight' = inflight \ {h}
    /\ \E dbOk \in BOOLEAN :
         IF dbOk /\ SchemaValid(h.dto)
         THEN /\ signals' = signals \cup {[_id |-> nextSignalId, doc |-> PreSave(h.dto)]}
              /\ nextSignalId' = nextSignalId + 1
              /\ UNCHANGED failed
         ELSE /\ failed' = failed \cup {h.id}
              /\ UNCHANGED <<signals, nextSignalId>>
    /\ UNCHANGED <<svcVars, listeners, brokerVars, queue, nextMsg, published,
                   acked, nacked, emitted, handled, lastPublish>>

\* -------------------------------------------------------- ProducerService
\* The instance injected into ProducerService (the provider of its own module).
ProducerInstance == "ProducerModule"

UnknownDevice == "invalid-device"

\* Object.keys(this.xrayData), in insertion order.
getAvailableDevices ==
    (IF HexDevice \in DOMAIN xrayData THEN <<HexDevice>> ELSE <<>>)
        \o (IF HexDevice2 \in DOMAIN xrayData THEN <<HexDevice2>> ELSE <<>>)

\* !this.xrayData[deviceId] is false.
KnownDevice_any(deviceId) == TRUE

KnownDevice(deviceId) == deviceId \in DOMAIN xrayData

\* this.xrayData[deviceId].data; found = FALSE is the TypeError of reading
\* .data of undefined.
DeviceData(deviceId) ==
    IF deviceId \in DOMAIN xrayData
    THEN [found |-> TRUE, data |-> xrayData[deviceId]]
    ELSE [found |-> FALSE, data |-> <<>>]

\* The outcome of a producer call: "ok", or the message of the error thrown,
\* with the deviceId the message names.
Outcome(text, deviceId) == [text |-> text, deviceId |-> deviceId]
Plain(text) == Outcome(text, "")

\* new Error(`Device ${deviceId} not found in data`)
NotFound(deviceId) == Outcome("Device <deviceId> not found in data", deviceId)

\* A cleanup that only forgets the registry entry.
clearInterval_noop(ts, t) == ts

\* clearInterval(intervalId): the timer fires no more.
clearInterval(ts, t) == [ts EXCEPT ![t].active = FALSE]

\* this.simulationIntervals.delete(deviceId)
MapDelete(map, key) == [k \in DOMAIN map \ {key} |-> map[k]]

\* A Map.set that keeps the value of a key it already holds.
MapSet_keepFirst(map, key, val) == map @@ (key :> val)

\* this.simulationIntervals.set(deviceId, intervalId)
MapSet(map, key, val) == (key :> val) @@ map

\* A tick whose catch block stops the timer.
OnTickError_stop(ts, t) == [ts EXCEPT ![t].active = FALSE]

\* The catch block of the interval callback logs the error: the timer is
\* left as it is.
OnTickError(ts, t) == ts

\* A cursor that advances on every tick.
CursorAfter_always(dataIndex, ok) == dataIndex + 1

\* dataIndex++ follows the awaited publish inside the try block.
CursorAfter(dataIndex, ok) == IF ok THEN dataIndex + 1 ELSE dataIndex

\* The variables a publish by the ProducerService leaves alone.
ProducerFrame ==
    UNCHANGED <<connection, channel, link, pc, trace, initResult, inits, connects,
                faults, destroyed, listeners, brokerVars, acked, nacked, emitted,
                handled, inflight, failed, signals, nextSignalId>>

\* No publishXRayData call is made.
NoPublishCall == UNCHANGED <<svcVars, listeners, brokerVars, msgVars>>

\* simulateDevice(deviceId, interval)
SimulateDevice(deviceId) ==
    /\ IF ~KnownDevice(deviceId)
       THEN /\ sim' = [op |-> "simulateDevice", arg |-> deviceId,
                       result |-> NotFound(deviceId)]
            /\ UNCHANGED <<timers, simulationIntervals>>
       ELSE /\ Len(timers) < MaxTimers
            /\ timers' = Append(timers, [deviceId |-> deviceId, dataIndex |-> 0,
                                         active |-> TRUE, ticks |-> 0,
                                         cancelledAt |-> -1])
            /\ simulationIntervals' = MapSet(simulationIntervals, deviceId, Len(timers) + 1)
            /\ sim' = [op |-> "simulateDevice", arg |-> deviceId, result |-> Plain("ok")]
    /\ UNCHANGED <<lastTick, call, xrayData, load>>
    /\ NoPublishCall

\* The ticks fired so far.
TicksFired == SumOver([t \in 1..Len(timers) |-> timers[t].ticks], 1..Len(timers))

\* The interval callback of timer t fires.
Tick(t) ==
    /\ t \in 1..Len(timers)
    /\ timers[t].active
    /\ TicksFired < MaxTicks
    /\ LET dev == DeviceData(timers[t].deviceId)
           index == IF dev.found /\ Len(dev.data) > 0
                    THEN timers[t].dataIndex % Len(dev.data) ELSE 0
           data == IF dev.found /\ Len(dev.data) > 0 THEN <<dev.data[index + 1]>> ELSE <<>>
       IN /\ IF dev.found
             THEN Publish(ProducerInstance, [deviceId |-> timers[t].deviceId, data |-> data])
             ELSE UNCHANGED <<queue, nextMsg, published, chan, consuming, lastPublish>>
          /\ LET result == IF dev.found THEN lastPublish'.result ELSE "TypeError"
                 ok == result = "ok"
                 fired == [timers EXCEPT ![t].ticks = @ + 1,
                                         ![t].dataIndex = CursorAfter(@, ok)]
             IN /\ timers' = IF ok THEN fired ELSE OnTickError(fired, t)
                /\ lastTick' = [timer |-> t, k |-> timers[t].ticks, index |-> index,
                                result |-> result, data |-> data]
    /\ ProducerFrame
    /\ UNCHANGED <<simulationIntervals, sim, call, xrayData, load>>

\* The cleanup function returned by the simulateDevice call that made timer t.
Cleanup(t) ==
    /\ t \in 1..Len(timers)
    /\ timers' = [clearInterval(timers, t) EXCEPT
                     ![t].cancelledAt = IF @ = -1 THEN timers[t].ticks ELSE @]
    /\ simulationIntervals' = MapDelete(simulationIntervals, timers[t].deviceId)
    /\ sim' = [op |-> "cleanup", arg |-> timers[t].deviceId, result |-> Plain("ok")]
    /\ UNCHANGED <<lastTick, call, xrayData, load>>
    /\ NoPublishCall

\* stopSimulation(deviceId) applied to the timers and the registry.
StopOne(state, deviceId) ==
    IF deviceId \in DOMAIN state.map
    THEN [ts |-> clearInterval(state.ts, state.map[deviceId]),
          map |-> MapDelete(state.map, deviceId)]
    ELSE state

\* stopSimulation(deviceId)
StopSimulation(deviceId) ==
    /\ LET after == StopOne([ts |-> timers, map |-> simulationIntervals], deviceId)
       IN /\ timers' = after.ts
          /\ simulationIntervals' = after.map
    /\ sim' = [op |-> "stopSimulation", arg |-> deviceId, result |-> Plain("ok")]
    /\ UNCHANGED <<lastTick, call, xrayData, load>>
    /\ NoPublishCall

RECURSIVE StopEach(_, _)
\* for (const [deviceId] of this.simulationIntervals) this.stopSimulation(deviceId)
StopEach(state, keys) ==
    IF keys = {} THEN state
    ELSE LET key == CHOOSE key \in keys : TRUE
         IN StopEach(StopOne(state, key), keys \ {key})

\* A stopAllSimulations that also empties the catalog.
StopAllSimulations_clearing ==
    /\ LET after == StopEach([ts |-> timers, map |-> simulationIntervals],
                             DOMAIN simulationIntervals)
       IN /\ timers' = after.ts
          /\ simulationIntervals' = after.map
    /\ sim' = [op |-> "stopAllSimulations", arg |-> "", result |-> Plain("ok")]
    /\ xrayData' = <<>>
    /\ UNCHANGED <<lastTick, call, load>>
    /\ NoPublishCall

\* stopAllSimulations()
StopAllSimulations ==
    /\ LET after == StopEach([ts |-> timers, map |-> simulationIntervals],
                             DOMAIN simulationIntervals)
       IN /\ timers' = after.ts
          /\ simulationIntervals' = after.map
    /\ sim' = [op |-> "stopAllSimulations", arg |-> "", result |-> Plain("ok")]
    /\ UNCHANGED <<lastTick, call, xrayData, load>>
    /\ NoPublishCall

\* The count argument of sendBulkMessages / sendRandomData: omitted or given.
CountArgs == {NoCount}
             \cup {[given |-> TRUE, value |-> n] : n \in 0..MaxCount}

\* A default of no message.
DefaultCount_zero(c) == IF c.given THEN c.value ELSE 0

\* count: number = 1
DefaultCount(c) == IF c.given THEN c.value ELSE 1

\* The deviceIds arguments tried for sendBulkMessages.
BulkIdLists == { <<HexDevice, UnknownDevice>>, <<HexDevice2, HexDevice>>,
                 <<UnknownDevice, HexDevice2>> }

\* A Reading with only the first stored sample.
SingleReading_firstSample(deviceId) ==
    [deviceId |-> deviceId, data |-> SubSeq(DeviceData(deviceId).data, 1, 1)]

\* sendSingleMessage: {deviceId, data: deviceData.data, time: Date.now()}
\* (the time is filled in by Publish).
SingleReading(deviceId) ==
    [deviceId |-> deviceId, data |-> DeviceData(deviceId).data]

\* sendSingleMessage(deviceId), called directly.
SendSingleMessage(deviceId) ==
    /\ ~call.running
    /\ nextMsg <= MaxSends
    /\ LET dev == DeviceData(deviceId)
           reading == SingleReading(deviceId)
           base == [NoCall EXCEPT !.op = "sendSingleMessage", !.ids = <<deviceId>>,
                                  !.count = 1]
       IN IF ~KnownDevice(deviceId)
          THEN /\ call' = [base EXCEPT !.result = NotFound(deviceId)]
               /\ NoPublishCall
          ELSE IF ~dev.found
          THEN /\ call' = [base EXCEPT !.result = Plain("TypeError")]
               /\ NoPublishCall
          ELSE /\ Publish(ProducerInstance, reading)
               /\ call' = [base EXCEPT
                              !.result = Plain(lastPublish'.result),
                              !.sent = IF lastPublish'.result = "ok"
                                       THEN <<reading>> ELSE <<>>]
    /\ UNCHANGED <<timers, simulationIntervals, sim, lastTick, xrayData, load>>

\* A loop that skips no id.
BulkSkips_never(deviceId) == FALSE

\* sendBulkMessages: if (!this.xrayData[deviceId]) { warn; continue }
BulkSkips(deviceId) == ~KnownDevice(deviceId)

RECURSIVE BulkPosition(_, _, _, _)
\* The loops of sendBulkMessages run on from (d, i) to the next
\* sendSingleMessage call: unknown ids are skipped, a device is left after
\* count messages. d > Len(deviceIds) is the end of the outer loop.
BulkPosition(deviceIds, count, d, i) ==
    IF d > Len(deviceIds) THEN [d |-> d, i |-> 0]
    ELSE IF BulkSkips(deviceIds[d]) THEN BulkPosition(deviceIds, count, d + 1, 0)
    ELSE IF i >= count THEN BulkPosition(deviceIds, count, d + 1, 0)
    ELSE [d |-> d, i |-> i]

\* The call record at loop position pos: finished when the loop has ended.
AtPosition(c, pos, atEnd) ==
    [c EXCEPT !.d = pos.d, !.i = pos.i, !.running = ~atEnd,
              !.result = Plain(IF atEnd THEN "ok" ELSE "none")]

\* sendBulkMessages(deviceIds, count) is called.
SendBulkMessages(deviceIds, c) ==
    /\ ~call.running
    /\ LET count == DefaultCount(c)
           pos == BulkPosition(deviceIds, count, 1, 0)
       IN call' = AtPosition([NoCall EXCEPT !.op = "sendBulkMessages", !.arg = c,
                                           !.ids = deviceIds, !.count = count],
                             pos, pos.d > Len(deviceIds))
    /\ UNCHANGED <<timers, simulationIntervals, sim, lastTick, xrayData, load>>
    /\ NoPublishCall

\* One iteration of the inner loop of sendBulkMessages: await
\* this.sendSingleMessage(deviceId), then the pacing delay.
BulkStep ==
    /\ call.running
    /\ call.op = "sendBulkMessages"
    /\ nextMsg <= MaxSends
    /\ LET deviceId == call.ids[call.d]
           reading == SingleReading(deviceId)
           pos == BulkPosition(call.ids, call.count, call.d, call.i + 1)
       IN IF ~KnownDevice(deviceId)
          THEN \* sendSingleMessage throws, and sendBulkMessages with it
               /\ call' = [call EXCEPT !.running = FALSE, !.result = NotFound(deviceId)]
               /\ NoPublishCall
          ELSE /\ Publish(ProducerInstance, reading)
               /\ call' = IF lastPublish'.result = "ok"
                          THEN AtPosition([call EXCEPT !.sent = Append(@, reading)],
                                          pos, pos.d > Len(call.ids))
                          ELSE [call EXCEPT !.running = FALSE,
                                            !.result = Plain(lastPublish'.result)]
    /\ UNCHANGED <<timers, simulationIntervals, sim, lastTick, xrayData, load>>

\* ProducerController.sendBulkMessages: const count = body.count || 1
EndpointCount(c) == IF c.given /\ c.value # 0 THEN c.value ELSE 1

\* The body the send-bulk endpoint returns once
\* producerService.sendBulkMessages(body.deviceIds, count) has resolved.
SendBulkResponse(deviceIds, c) ==
    [message |-> "Messages sent successfully",
     deviceIds |-> deviceIds,
     count |-> EndpointCount(c),
     totalMessages |-> Len(deviceIds) * EndpointCount(c)]

\* generateRandomData() when Math.random() selects the device at index pick.
generateRandomData(pick) ==
    LET randomDeviceId == getAvailableDevices[pick]
    IN [deviceId |-> randomDeviceId, data |-> DeviceData(randomDeviceId).data]

\* sendRandomData(count) is called.
SendRandomData(c) ==
    /\ ~call.running
    /\ LET count == DefaultCount(c)
       IN call' = AtPosition([NoCall EXCEPT !.op = "sendRandomData", !.arg = c,
                                           !.count = count],
                             [d |-> 1, i |-> 0], 0 >= count)
    /\ UNCHANGED <<timers, simulationIntervals, sim, lastTick, xrayData, load>>
    /\ NoPublishCall

\* One iteration of the loop of sendRandomData.
RandomStep(pick) ==
    /\ call.running
    /\ call.op = "sendRandomData"
    /\ nextMsg <= MaxSends
    /\ LET reading == generateRandomData(pick)
       IN /\ Publish(ProducerInstance, reading)
          /\ call' = IF lastPublish'.result = "ok"
                     THEN AtPosition([call EXCEPT !.sent = Append(@, reading)],
                                     [d |-> 1, i |-> call.i + 1],
                                     call.i + 1 >= call.count)
                     ELSE [call EXCEPT !.running = FALSE,
                                       !.result = Plain(lastPublish'.result)]
    /\ UNCHANGED <<timers, simulationIntervals, sim, lastTick, xrayData, load>>

\* ------------------------------------------------------------------- spec
\* bootstrap().catch(...): a rejected onModuleInit ends the process.
Aborted == \E i \in Instances : initResult[i].status = "rejected"

\* The application: AppModule imports RabbitMQModule, SignalsModule and
\* ProducerModule, so three RabbitMQService instances run in one process.
Next ==
    \/ \E i \in Instances : ~Aborted /\ Startup(i) /\ UNCHANGED appVars
    \/ \E i \in Instances : ~Aborted /\ AmqpConnect(i) /\ UNCHANGED appVars
    \/ \E i \in Instances : ~Aborted /\ CreateChannel(i) /\ UNCHANGED appVars
    \/ \E i \in Instances : ~Aborted /\ AssertExchange(i) /\ UNCHANGED appVars
    \/ \E i \in Instances : ~Aborted /\ AssertQueue(i) /\ UNCHANGED appVars
    \/ \E i \in Instances : ~Aborted /\ BindQueue(i) /\ UNCHANGED appVars
    \/ \E i \in Instances : ~Aborted /\ Consume(i) /\ UNCHANGED appVars
    \/ \E i \in Instances : ~Aborted /\ ConnectionLost(i) /\ UNCHANGED appVars
    \/ \E i \in Instances : ~Aborted /\ OnModuleDestroy(i) /\ UNCHANGED appVars
    \/ \E i \in Instances : ~Aborted /\ ChannelClose(i) /\ UNCHANGED appVars
    \/ \E i \in Instances : ~Aborted /\ ConnectionClose(i) /\ UNCHANGED appVars
    \/ \E i \in Instances, input \in ReadingInputs : ~Aborted /\ PublishXRayData(i, input) /\ UNCHANGED appVars
    \/ \E content \in ForeignPayloads : ~Aborted /\ ExternalPublish(content) /\ UNCHANGED appVars
    \/ ~Aborted /\ SignalsServiceInit /\ UNCHANGED appVars
    \/ \E i \in Instances, k \in 1..MaxMsgs : ~Aborted /\ Deliver(i, k) /\ UNCHANGED appVars
    \/ \E h \in inflight : ~Aborted /\ CreateSettles(h) /\ UNCHANGED appVars

Spec == Init /\ [][Next]_vars

\* One RabbitMQService with the SignalsService that listens to it, driven
\* directly (no bootstrap): a rejected onModuleInit leaves the objects alive,
\* and the hook may be invoked again.
NextUnit ==
    \/ Startup(SignalsInstance) /\ UNCHANGED appVars
    \/ Restart(SignalsInstance) /\ UNCHANGED appVars
    \/ AmqpConnect(SignalsInstance) /\ UNCHANGED appVars
    \/ CreateChannel(SignalsInstance) /\ UNCHANGED appVars
    \/ AssertExchange(SignalsInstance) /\ UNCHANGED appVars
    \/ AssertQueue(SignalsInstance) /\ UNCHANGED appVars
    \/ BindQueue(SignalsInstance) /\ UNCHANGED appVars
    \/ Consume(SignalsInstance) /\ UNCHANGED appVars
    \/ ConnectionLost(SignalsInstance) /\ UNCHANGED appVars
    \/ OnModuleDestroy(SignalsInstance) /\ UNCHANGED appVars
    \/ ChannelClose(SignalsInstance) /\ UNCHANGED appVars
    \/ ConnectionClose(SignalsInstance) /\ UNCHANGED appVars
    \/ \E input \in ReadingInputs : PublishXRayData(SignalsInstance, input) /\ UNCHANGED appVars
    \/ \E content \in ForeignPayloads : ExternalPublish(content) /\ UNCHANGED appVars
    \/ SignalsServiceInit /\ UNCHANGED appVars
    \/ \E k \in 1..MaxMsgs : Deliver(SignalsInstance, k) /\ UNCHANGED appVars
    \/ \E h \in inflight : CreateSettles(h) /\ UNCHANGED appVars

SpecUnit == Init /\ [][NextUnit]_vars

\* The producer's operations are requests served by the running application
\* (or calls on a service that was never initialised): none arrives while a
\* lifecycle hook of its RabbitMQService is in progress.
Quiet == pc[ProducerInstance] = "idle"

\* The deviceIds that simulations are requested for.
SimDevices == {HexDevice, UnknownDevice}

\* The simulations of the ProducerService with the RabbitMQService injected
\* into it: the service connects, may lose its connection, and simulations
\* are started, tick and are stopped in any order.
NextSim ==
    \/ Startup(ProducerInstance) /\ UNCHANGED appVars
    \/ AmqpConnect(ProducerInstance) /\ UNCHANGED appVars
    \/ CreateChannel(ProducerInstance) /\ UNCHANGED appVars
    \/ AssertExchange(ProducerInstance) /\ UNCHANGED appVars
    \/ AssertQueue(ProducerInstance) /\ UNCHANGED appVars
    \/ BindQueue(ProducerInstance) /\ UNCHANGED appVars
    \/ Consume(ProducerInstance) /\ UNCHANGED appVars
    \/ ConnectionLost(ProducerInstance) /\ UNCHANGED appVars
    \/ \E deviceId \in SimDevices :
          Quiet /\ SimulateDevice(deviceId) /\ UNCHANGED <<metrics, api>>
    \/ \E t \in 1..MaxTimers : Quiet /\ Tick(t) /\ UNCHANGED <<metrics, api>>
    \/ \E t \in 1..MaxTimers : Quiet /\ Cleanup(t) /\ UNCHANGED <<metrics, api>>
    \/ \E deviceId \in SimDevices :
          Quiet /\ StopSimulation(deviceId) /\ UNCHANGED <<metrics, api>>
    \/ Quiet /\ StopAllSimulations /\ UNCHANGED <<metrics, api>>

SpecSim == Init /\ [][NextSim]_vars

\* The send operations of the ProducerService, one call at a time, while its
\* RabbitMQService connects and may lose its connection.
NextSend ==
    \/ Startup(ProducerInstance) /\ UNCHANGED appVars
    \/ AmqpConnect(ProducerInstance) /\ UNCHANGED appVars
    \/ CreateChannel(ProducerInstance) /\ UNCHANGED appVars
    \/ AssertExchange(ProducerInstance) /\ UNCHANGED appVars
    \/ AssertQueue(ProducerInstance) /\ UNCHANGED appVars
    \/ BindQueue(ProducerInstance) /\ UNCHANGED appVars
    \/ Consume(ProducerInstance) /\ UNCHANGED appVars
    \/ ConnectionLost(ProducerInstance) /\ UNCHANGED appVars
    \/ \E deviceId \in DOMAIN xrayData \cup {UnknownDevice} :
          Quiet /\ SimulateDevice(deviceId) /\ UNCHANGED <<metrics, api>>
    \/ \E deviceId \in DOMAIN xrayData \cup {UnknownDevice} :
          Quiet /\ SendSingleMessage(deviceId) /\ UNCHANGED <<metrics, api>>
    \/ \E deviceIds \in BulkIdLists, c \in CountArgs :
          Quiet /\ SendBulkMessages(deviceIds, c) /\ UNCHANGED <<metrics, api>>
    \/ Quiet /\ BulkStep /\ UNCHANGED <<metrics, api>>
    \/ \E c \in CountArgs : Quiet /\ SendRandomData(c) /\ UNCHANGED <<metrics, api>>
    \/ \E pick \in 1..Len(getAvailableDevices) : Quiet /\ RandomStep(pick) /\ UNCHANGED <<metrics, api>>

SpecSend == Init /\ [][NextSend]_vars

\* --------------------------------------- calculateSignalMetrics, by itself
\* Coordinate arrays of a sample: [], [lat], [lat, lng] and [lat, lng, speed].
Lats == {51, 53}
Lngs == {12, 14}
Speeds == {1, 3}
CoordinateArrays ==
    {<<>>}
    \cup {<<lat>> : lat \in Lats}
    \cup {<<lat, lng>> : lat \in Lats, lng \in Lngs}
    \cup {<<lat, lng, speed>> : lat \in Lats, lng \in Lngs, speed \in Speeds}

\* Samples [relativeTimestamp, coordinates].
MetricSamples == {<<762, c>> : c \in CoordinateArrays}

\* Sequences over S of length n.
SeqsOfLen(S, n) == [1..n -> S]

\* The Reading {deviceId: "d1", data: [[762, [51.339764, 12.339223, 1.2038]],
\* [1766, [51.339777, 12.339211, 1.531604]]], time: 1735683480000}, its
\* coordinates and speeds in millionths and its time in seconds.
ExampleReading ==
    [deviceId |-> "d1",
     data |-> << <<762, <<51339764, 12339223, 1203800>>>>,
                 <<1766, <<51339777, 12339211, 1531604>>>> >>,
     time |-> 1735683480]

\* The Readings handed to calculateSignalMetrics: no sample up to MaxSamples
\* samples, each with a complete or an incomplete coordinate array, and the
\* example Reading.
MetricInputs ==
    { [deviceId |-> HexDevice, data |-> d, time |-> 1] :
         d \in UNION {SeqsOfLen(MetricSamples, n) : n \in 0..MaxSamples} }
    \cup {ExampleReading}

\* A calculation that stamps the dto with the next document id.
CalculateSignalMetrics_stamped(reading) ==
    /\ metrics' = [metrics EXCEPT
                      !.called = TRUE, !.input = reading,
                      !.result = [calculateSignalMetrics(reading) EXCEPT
                                     !.dto.timestamp = nextSignalId]]
    /\ UNCHANGED <<svcVars, brokerVars, msgVars, listeners, prodVars, api>>

\* calculateSignalMetrics(xrayData) is called with a Reading; nothing but its
\* result is produced.
CalculateSignalMetrics(reading) ==
    /\ metrics' = [metrics EXCEPT !.called = TRUE, !.input = reading,
                                  !.result = calculateSignalMetrics(reading)]
    /\ UNCHANGED <<svcVars, brokerVars, msgVars, listeners, prodVars, api>>

\* The caller keeps the Reading it passed and the dto it got back, to
\* compare them with those of a later call.
KeepResult ==
    /\ metrics.called
    /\ metrics' = [metrics EXCEPT !.kept = [input |-> metrics.input,
                                            result |-> metrics.result]]
    /\ UNCHANGED <<svcVars, brokerVars, msgVars, listeners, prodVars, api>>

NextMetrics == \E reading \in MetricInputs : CalculateSignalMetrics(reading)

SpecMetrics == Init /\ [][NextMetrics]_vars

\* ------------------------------------------- SignalsService: the store API
\* JavaScript truthiness of an optional number and of an optional string:
\* undefined, 0 and '' are falsy.
TruthyNum(o) == o.given /\ o.value # 0
TruthyStr(o) == o.given /\ o.value # ""

RECURSIVE InIdOrder(_)
\* The documents of S in the order a find without sort returns them.
InIdOrder(S) ==
    IF S = {} THEN <<>>
    ELSE LET d == CHOOSE x \in S : \A y \in S : x._id <= y._id
         IN <<d>> \o InIdOrder(S \ {d})

\* if (filter?.startTime && filter?.endTime)
\*     query.where('timestamp').gte(filter.startTime).lte(filter.endTime)
TimeRange(S, filter) ==
    IF TruthyNum(filter.startTime) /\ TruthyNum(filter.endTime)
    THEN {x \in S : /\ x.doc.timestamp >= filter.startTime.value
                    /\ x.doc.timestamp <= filter.endTime.value}
    ELSE S

\* if (filter?.limit) query.limit(filter.limit); if (filter?.skip)
\* query.skip(filter.skip): the store skips first and limits what is left.
Page(q, filter) ==
    LET skip == IF TruthyNum(filter.skip) THEN filter.skip.value ELSE 0
        rest == SubSeq(q, skip + 1, Len(q))
    IN IF TruthyNum(filter.limit) /\ filter.limit.value < Len(rest)
       THEN SubSeq(rest, 1, filter.limit.value)
       ELSE rest

\* findAll(filter): the documents returned.
findAll(S, filter) ==
    LET byDevice == IF TruthyStr(filter.deviceId)
                    THEN {x \in S : x.doc.deviceId = filter.deviceId.value}
                    ELSE S
    IN Page(InIdOrder(TimeRange(byDevice, filter)), filter)

\* A query for the device that leaves out the pagination.
findByDeviceId_unpaged(S, deviceId, filter) ==
    InIdOrder(TimeRange({x \in S : x.doc.deviceId = deviceId}, filter))

\* findByDeviceId(deviceId, filter): the documents returned.
findByDeviceId(S, deviceId, filter) ==
    Page(InIdOrder(TimeRange({x \in S : x.doc.deviceId = deviceId}, filter)), filter)

\* signalModel.findById(id) / findByIdAndUpdate / findByIdAndDelete: the cast
\* of a string that is no ObjectId rejects with a CastError; an absent id
\* resolves to null, which the service turns into 'Signal with ID <id> not
\* found'.
findById(S, id) ==
    IF ~id.valid THEN "CastError"
    ELSE IF \E x \in S : x._id = id.n THEN "ok"
    ELSE "NotFound"

RECURSIVE FracSum(_, _)
\* The sum of the fractions q[k], q[k+1], ...
FracSum(q, k) ==
    IF k > Len(q) THEN [num |-> 0, den |-> 1]
    ELSE LET r == FracSum(q, k + 1)
         IN [num |-> q[k].num * r.den + r.num * q[k].den, den |-> q[k].den * r.den]

\* Math.round($avg * 100) / 100, in hundredths: the mean of the fractions q
\* rounded half up to two decimals.
RoundedAvg(q) ==
    LET total == FracSum(q, 1)
        den == total.den * Len(q)
    IN [num |-> (200 * total.num + den) \div (2 * den), den |-> 100]

\* A count of devices that counts the documents.
CountDevices_perDocument(match) == Cardinality(match)

\* $addToSet: '$deviceId', then totalDevices.length.
CountDevices(match) == Cardinality({x.doc.deviceId : x \in match})

\* getStatistics(deviceId): the aggregation over the matching documents,
\* the all-zero record when the aggregation returns no group.
getStatistics(S, deviceId) ==
    LET match == IF TruthyStr(deviceId)
                 THEN {x \in S : x.doc.deviceId = deviceId.value}
                 ELSE S
        q == InIdOrder(match)
        n == Len(q)
    IN IF n = 0 THEN ZeroStats
       ELSE [totalSignals |-> n,
             totalDevices |-> CountDevices(match),
             averageDataLength |->
                 RoundedAvg([k \in 1..n |-> [num |-> q[k].doc.dataLength, den |-> 1]]),
             averageDataVolume |->
                 RoundedAvg([k \in 1..n |-> [num |-> q[k].doc.dataVolume, den |-> 1]]),
             averageSpeed |-> RoundedAvg([k \in 1..n |-> q[k].doc.averageSpeed]),
             maxSpeed |-> SeqMax([k \in 1..n |-> q[k].doc.maxSpeed]),
             minSpeed |-> SeqMin([k \in 1..n |-> q[k].doc.minSpeed])]

\* What the calls of the store API leave alone.
storeFrame == <<svcVars, brokerVars, listeners, prodVars, metrics, queue, nextMsg,
                published, acked, nacked, emitted, handled, inflight, failed,
                lastPublish>>

\* The dtos handed to createSignal: the metrics of three Readings, a dto
\* posted with a dataVolume that is not 3 * dataLength, and one whose
\* deviceId the schema rejects.
StoreDtos ==
    { calculateSignalMetrics([deviceId |-> HexDevice, data |-> <<Sample1, Sample2>>,
                              time |-> 1]).dto,
      calculateSignalMetrics([deviceId |-> HexDevice, data |-> <<Sample1>>,
                              time |-> 3]).dto,
      calculateSignalMetrics([deviceId |-> HexDevice2, data |-> <<Sample3>>,
                              time |-> 2]).dto,
      [calculateSignalMetrics([deviceId |-> HexDevice2, data |-> <<Sample3>>,
                               time |-> 3]).dto EXCEPT !.dataVolume = 7],
      calculateSignalMetrics([deviceId |-> TestDevice, data |-> <<Sample1>>,
                              time |-> 1]).dto }

\* The filters of the queries; 0 is a time like any other.
Filters ==
    [deviceId : {NoStr, Opt(HexDevice)},
     startTime : {NoCount, Opt(0), Opt(2)}, endTime : {NoCount, Opt(0), Opt(2)},
     limit : {NoCount, Opt(1)}, skip : {NoCount, Opt(1)}]

\* The id arguments: the ids the store hands out, one it never does, and
\* 'nonexistent-id'.
IdArgs == {[valid |-> TRUE, n |-> n] : n \in 1..MaxDocs + 1}
          \cup {[valid |-> FALSE, n |-> 0]}

\* createSignal(dto): signalModel.create validates, runs the pre-save hook
\* and inserts; a validation error is logged and rethrown.
CreateSignal(dto) ==
    /\ nextSignalId <= MaxDocs
    /\ IF SchemaValid(dto)
       THEN LET new == [_id |-> nextSignalId, doc |-> PreSave(dto)]
            IN /\ signals' = signals \cup {new}
               /\ nextSignalId' = nextSignalId + 1
               /\ api' = [NoApi EXCEPT !.op = "createSignal", !.status = "ok",
                                       !.docs = <<new>>]
       ELSE /\ api' = [NoApi EXCEPT !.op = "createSignal",
                                    !.status = "ValidationError"]
            /\ UNCHANGED <<signals, nextSignalId>>
    /\ UNCHANGED storeFrame

\* findAll(filter) is called.
FindAll(filter) ==
    /\ api' = [NoApi EXCEPT !.op = "findAll", !.filter = filter, !.status = "ok",
                            !.docs = findAll(signals, filter)]
    /\ UNCHANGED <<signals, nextSignalId, storeFrame>>

\* findByDeviceId(deviceId, filter) is called.
FindByDeviceId(deviceId, filter) ==
    /\ api' = [NoApi EXCEPT !.op = "findByDeviceId", !.deviceId = Opt(deviceId),
                            !.filter = filter, !.status = "ok",
                            !.docs = findByDeviceId(signals, deviceId, filter)]
    /\ UNCHANGED <<signals, nextSignalId, storeFrame>>

\* findOne(id) is called.
FindOne(id) ==
    /\ api' = [NoApi EXCEPT !.op = "findOne", !.id = id,
                            !.status = findById(signals, id),
                            !.docs = IF findById(signals, id) = "ok"
                                     THEN InIdOrder({x \in signals : x._id = id.n})
                                     ELSE <<>>]
    /\ UNCHANGED <<signals, nextSignalId, storeFrame>>

\* updateSignal(id, patch): findByIdAndUpdate(id, patch, {new: true}) sets
\* the given fields; it runs neither the validators nor the save hooks.
UpdateSignal(id, patch) ==
    /\ LET status == findById(signals, id)
           after == {IF x._id = id.n THEN [x EXCEPT !.doc = patch @@ x.doc] ELSE x :
                        x \in signals}
       IN IF status = "ok"
          THEN /\ signals' = after
               /\ api' = [NoApi EXCEPT !.op = "updateSignal", !.id = id,
                                       !.status = "ok",
                                       !.docs = InIdOrder({x \in after : x._id = id.n})]
          ELSE /\ api' = [NoApi EXCEPT !.op = "updateSignal", !.id = id,
                                       !.status = status]
               /\ UNCHANGED signals
    /\ UNCHANGED <<nextSignalId, storeFrame>>

\* deleteSignal(id): findByIdAndDelete(id).
DeleteSignal(id) ==
    /\ LET status == findById(signals, id)
       IN /\ api' = [NoApi EXCEPT !.op = "deleteSignal", !.id = id, !.status = status]
          /\ signals' = IF status = "ok" THEN {x \in signals : x._id # id.n}
                        ELSE signals
    /\ UNCHANGED <<nextSignalId, storeFrame>>

\* getStatistics(deviceId) is called.
GetStatistics(deviceId) ==
    /\ api' = [NoApi EXCEPT !.op = "getStatistics", !.deviceId = deviceId,
                            !.status = "ok",
                            !.stats = getStatistics(signals, deviceId)]
    /\ UNCHANGED <<signals, nextSignalId, storeFrame>>

\* The last call was none of the two list queries. A list query changes
\* nothing, so one that follows another sees what it would have seen in its
\* place.
AfterWrite == api.op \notin {"findAll", "findByDeviceId"}

\* The store API called in any order on a store that starts empty.
NextStore ==
    \/ \E dto \in StoreDtos : CreateSignal(dto)
    \/ \E filter \in Filters : AfterWrite /\ FindAll(filter)
    \/ \E deviceId \in {HexDevice, HexDevice2}, filter \in Filters :
          AfterWrite /\ FindByDeviceId(deviceId, filter)
    \/ \E id \in IdArgs : FindOne(id)
    \/ \E id \in IdArgs : UpdateSignal(id, [dataLength |-> 3])
    \/ \E id \in IdArgs : DeleteSignal(id)
    \/ \E deviceId \in {NoStr, Opt(HexDevice), Opt(HexDevice2), Opt(TestDevice)} :
          GetStatistics(deviceId)

\* The broker plays no part in the store API: it starts without exchanges.
SpecStore == InitFresh /\ [][NextStore]_vars

\* calculateSignalMetrics called again and again for a few Readings while
\* records are inserted into and deleted from the store.
NextPure ==
    \/ \E reading \in {ExampleReading, [ExampleReading EXCEPT !.deviceId = HexDevice],
                        [deviceId |-> HexDevice, data |-> <<>>, time |-> 1]} :
          CalculateSignalMetrics(reading)
    \/ KeepResult
    \/ \E dto \in StoreDtos : CreateSignal(dto)
    \/ \E id \in IdArgs : DeleteSignal(id)

SpecPure == InitFresh /\ [][NextPure]_vars

\* ------------------------------------------------------- catalog scenario
\* One ProducerService over a broker without faults: the connect sequence,
\* then every operation of the service that reads this.xrayData, one call at
\* a time.
NextCatalog ==
    \/ Startup(ProducerInstance) /\ UNCHANGED appVars
    \/ AmqpConnect(ProducerInstance) /\ UNCHANGED appVars
    \/ CreateChannel(ProducerInstance) /\ UNCHANGED appVars
    \/ AssertExchange(ProducerInstance) /\ UNCHANGED appVars
    \/ AssertQueue(ProducerInstance) /\ UNCHANGED appVars
    \/ BindQueue(ProducerInstance) /\ UNCHANGED appVars
    \/ Consume(ProducerInstance) /\ UNCHANGED appVars
    \/ Quiet /\ SimulateDevice(HexDevice) /\ UNCHANGED <<metrics, api>>
    \/ \E t \in 1..MaxTimers :
          Quiet /\ nextMsg <= MaxMsgs /\ Tick(t) /\ UNCHANGED <<metrics, api>>
    \/ Quiet /\ StopSimulation(HexDevice) /\ UNCHANGED <<metrics, api>>
    \/ Quiet /\ StopAllSimulations /\ UNCHANGED <<metrics, api>>
    \/ Quiet /\ nextMsg <= MaxMsgs /\ SendSingleMessage(HexDevice2)
          /\ UNCHANGED <<metrics, api>>
    \/ Quiet /\ SendBulkMessages(<<HexDevice2, HexDevice>>, NoCount)
          /\ UNCHANGED <<metrics, api>>
    \/ Quiet /\ nextMsg <= MaxMsgs /\ BulkStep /\ UNCHANGED <<metrics, api>>
    \/ Quiet /\ SendRandomData(NoCount) /\ UNCHANGED <<metrics, api>>
    \/ \E pick \in 1..Len(getAvailableDevices) :
          Quiet /\ nextMsg <= MaxMsgs /\ RandomStep(pick) /\ UNCHANGED <<metrics, api>>

SpecCatalog == InitFresh /\ [][NextCatalog]_vars

\* -------------------------------------------------------- load scenario
\* ProducerService.onModuleInit() under NODE_ENV = nodeEnv with x-ray.json
\* in the state file.
ProducerModuleInit(nodeEnv, file) ==
    /\ xrayData' = IF nodeEnv # "test" THEN loadXRayData(file) ELSE xrayData
    /\ load' = [called |-> nodeEnv # "test", nodeEnv |-> nodeEnv, file |-> file]
    /\ UNCHANGED <<timers, simulationIntervals, sim, lastTick, call, metrics, api>>
    /\ NoPublishCall

\* The ProducerService is initialised, again on each restart of the
\* application, and serves sends and simulation requests for the devices of
\* the catalog it holds; its RabbitMQService is not connected.
NextLoad ==
    \/ \E nodeEnv \in {"test", "production"}, file \in XRayFiles :
          ProducerModuleInit(nodeEnv, file)
    \/ \E deviceId \in {HexDevice, HexDevice2} :
          nextMsg <= MaxMsgs /\ SendSingleMessage(deviceId) /\ UNCHANGED <<metrics, api>>
    \/ \E deviceId \in {HexDevice, HexDevice2} :
          SimulateDevice(deviceId) /\ UNCHANGED <<metrics, api>>
    \/ StopAllSimulations /\ UNCHANGED <<metrics, api>>

SpecLoad == InitFresh /\ [][NextLoad]_vars

\* --------------------------------------------------------- cycle scenario
\* One continuous simulation of one device of the catalog, while the
\* RabbitMQService of the producer connects and may lose its connection.
\* channel.publish returns synchronously, so the awaits of one interval
\* callback complete before the next callback of the event loop runs: each
\* tick is one step.
NextCycle ==
    \/ Startup(ProducerInstance) /\ UNCHANGED appVars
    \/ AmqpConnect(ProducerInstance) /\ UNCHANGED appVars
    \/ CreateChannel(ProducerInstance) /\ UNCHANGED appVars
    \/ AssertExchange(ProducerInstance) /\ UNCHANGED appVars
    \/ AssertQueue(ProducerInstance) /\ UNCHANGED appVars
    \/ BindQueue(ProducerInstance) /\ UNCHANGED appVars
    \/ Consume(ProducerInstance) /\ UNCHANGED appVars
    \/ ConnectionLost(ProducerInstance) /\ UNCHANGED appVars
    \/ \E deviceId \in DOMAIN xrayData :
          Quiet /\ timers = <<>> /\ SimulateDevice(deviceId) /\ UNCHANGED <<metrics, api>>
    \/ Quiet /\ Tick(1) /\ UNCHANGED <<metrics, api>>

SpecCycle == Init /\ [][NextCycle]_vars

\* ------------------------------------------------------ consumer scenario
\* The RabbitMQService of SignalsModule with its listener, on a broker
\* without faults: it connects, Readings and foreign payloads are published,
\* the consumer callback is invoked with messages and, when the broker
\* cancels the consumer, with null.
NextConsume ==
    \/ SignalsServiceInit /\ UNCHANGED appVars
    \/ Startup(SignalsInstance) /\ UNCHANGED appVars
    \/ AmqpConnect(SignalsInstance) /\ UNCHANGED appVars
    \/ CreateChannel(SignalsInstance) /\ UNCHANGED appVars
    \/ AssertExchange(SignalsInstance) /\ UNCHANGED appVars
    \/ AssertQueue(SignalsInstance) /\ UNCHANGED appVars
    \/ BindQueue(SignalsInstance) /\ UNCHANGED appVars
    \/ Consume(SignalsInstance) /\ UNCHANGED appVars
    \/ \E input \in ReadingInputs :
          PublishXRayData(SignalsInstance, input) /\ UNCHANGED appVars
    \/ \E content \in ForeignPayloads : ExternalPublish(content) /\ UNCHANGED appVars
    \/ \E k \in 1..MaxMsgs : Deliver(SignalsInstance, k) /\ UNCHANGED appVars
    \/ \E h \in inflight : CreateSettles(h) /\ UNCHANGED appVars
    \/ ConsumerCancelled(SignalsInstance) /\ UNCHANGED appVars

SpecConsume == InitFresh /\ [][NextConsume]_vars

\* --------------------------------------------------------- drain scenario
\* The consumer of SignalsModule on a broker that stays up: the service
\* connects, Readings are published, and the broker delivers every ready
\* message of x-ray-queue to the registered consumer (weak fairness of the
\* deliveries: a message that stays ready is pushed to the consumer).
NextDrain ==
    \/ SignalsServiceInit /\ UNCHANGED appVars
    \/ Startup(SignalsInstance) /\ UNCHANGED appVars
    \/ AmqpConnect(SignalsInstance) /\ UNCHANGED appVars
    \/ CreateChannel(SignalsInstance) /\ UNCHANGED appVars
    \/ AssertExchange(SignalsInstance) /\ UNCHANGED appVars
    \/ AssertQueue(SignalsInstance) /\ UNCHANGED appVars
    \/ BindQueue(SignalsInstance) /\ UNCHANGED appVars
    \/ Consume(SignalsInstance) /\ UNCHANGED appVars
    \/ \E input \in ReadingInputs :
          PublishXRayData(SignalsInstance, input) /\ UNCHANGED appVars
    \/ \E k \in 1..MaxMsgs : Deliver(SignalsInstance, k) /\ UNCHANGED appVars
    \/ \E h \in inflight : CreateSettles(h) /\ UNCHANGED appVars

SpecDrain ==
    /\ InitFresh
    /\ [][NextDrain]_vars
    /\ WF_vars(\E k \in 1..MaxMsgs : Deliver(SignalsInstance, k) /\ UNCHANGED appVars)

\* ================================================================= claims
Decodable(content) == JSONparse(content).ok
Ops(i) == [k \in 1..Len(trace[i]) |-> trace[i][k].op]
ConnectOrder == <<"amqpConnect", "createChannel", "assertExchange",
                  "assertQueue", "bindQueue", "consume">>
TopologyOps == {"assertExchange", "assertQueue", "bindQueue"}
ConnectPcs == {ConnectOrder[k] : k \in 1..Len(ConnectOrder)}
IsPrefix(a, b) == Len(a) <= Len(b) /\ \A k \in 1..Len(a) : a[k] = b[k]

\* C1: a message whose ingestion handler failed (metrics computation or the
\* persistence write rejected) was negatively acknowledged with requeue and
\* was never acknowledged.
C1_HandlerFailureRequeues ==
    \A id \in failed :
        /\ id \notin acked
        /\ \E n \in nacked : n.id = id /\ n.requeue

\* C2: every acknowledged message has a stored SignalRecord: the ack never
\* precedes the completion of the persistence write.
C2_AckedImpliesStored ==
    \A id \in acked : \E d \in signals : d.doc.timestamp = id

\* C3: every decoded Reading whose message was acknowledged, by whichever
\* consumer of the application, was received by the ingestion handler.
C3_AckedWasHandled ==
    \A id \in acked : id \in emitted => id \in handled

\* C4: round trip: for every Reading accepted by publishXRayData whose message
\* has been consumed there is a stored record with the Reading's deviceId,
\* time and samples.
C4_RoundTrip ==
    \A p \in published :
        (p.via = "publishXRayData" /\ p.id \in acked) =>
            \E d \in signals :
                /\ d.doc.deviceId = p.reading.deviceId
                /\ d.doc.timestamp = p.reading.time
                /\ d.doc.data = p.reading.data

\* C5: a message whose payload is not JSON is never acknowledged, no
\* 'xray-data' event is emitted for it, every negative acknowledgement of it
\* is nack(msg, false, true), and it stays in the queue with its content
\* unchanged.
C5_MalformedStaysQueued ==
    \A p \in published :
        ~Decodable(p.content) =>
            /\ p.id \notin acked
            /\ p.id \notin emitted
            /\ \A n \in nacked : n.id = p.id => (n.requeue /\ ~n.allUpTo)
            /\ \E k \in 1..Len(queue) :
                  queue[k].id = p.id /\ queue[k].content = p.content

\* C5 witness: a malformed message that had already been requeued once was
\* delivered and negatively acknowledged a second time.
C5_Witness ==
    \E p \in published :
        /\ ~Decodable(p.content)
        /\ \E n \in nacked : n.id = p.id /\ n.redelivery

\* C6: at most one message per consumer is in processing at any time.
C6_OneInProcessing ==
    \A i \in Instances : Cardinality({h \in inflight : h.svc = i}) <= 1

\* C7: a publishXRayData call made while the service has no active channel
\* fails with 'Channel not initialized' and enqueues nothing.
C7_NoChannelMeansNotInitialized ==
    (lastPublish.result # "none" /\ ~lastPublish.active) =>
        (lastPublish.result = "Channel not initialized" /\ ~lastPublish.enqueued)

\* C8: the broker calls of connect() are made in the order exchange, queue,
\* binding, consumer, each only after the previous one succeeded; a consumer
\* exists, and a message is consumed, only when the durable fanout exchange,
\* the durable queue and the binding with the empty routing key exist.
C8_TopologyBeforeConsumer ==
    /\ \A i \in Instances :
          /\ IsPrefix(Ops(i), ConnectOrder)
          /\ \A k \in 1..Len(trace[i]) - 1 : trace[i][k].ok
          /\ consuming[i] =>
                (Len(trace[i]) = Len(ConnectOrder) /\ trace[i][Len(trace[i])].ok)
    /\ ((\E i \in Instances : consuming[i]) \/ acked # {} \/ nacked # {}) =>
          /\ [name |-> "x-ray-exchange", type |-> "fanout", durable |-> TRUE] \in exchanges
          /\ [name |-> "x-ray-queue", durable |-> TRUE] \in queues
          /\ [queue |-> "x-ray-queue", exchange |-> "x-ray-exchange", key |-> ""] \in bindings

\* C8 witness: a message was consumed by a consumer registered by a complete
\* connect().
C8_Witness ==
    /\ acked # {}
    /\ \E i \in Instances : consuming[i] /\ Ops(i) = ConnectOrder

\* C9: when a declaration of setupQueue fails, it is the last broker call of
\* that connect(): connect() has ended, onModuleInit is rejected with that
\* failure, nothing was retried and no consumer was started.
C9_TopologyFailureIsFatal ==
    \A i \in Instances :
        \A k \in 1..Len(trace[i]) :
            (trace[i][k].op \in TopologyOps /\ ~trace[i][k].ok) =>
                /\ k = Len(trace[i])
                /\ pc[i] \notin ConnectPcs
                /\ initResult[i] = [status |-> "rejected", error |-> trace[i][k].op]
                /\ ~consuming[i]
                /\ \A j \in 1..Len(trace[i]) : trace[i][j].op # "consume"

\* C9 witness: assertExchange failed against an exchange declared with
\* conflicting parameters.
C9_Witness ==
    \E i \in Instances :
        /\ ConflictingExchange \in exchanges
        /\ trace[i] # <<>>
        /\ trace[i][Len(trace[i])] = [op |-> "assertExchange", ok |-> FALSE]

\* C10: the service never connects by itself: a connect() is in progress only
\* while an onModuleInit invoked from outside is pending, amqp.connect is
\* called at most once per such invocation, and a service whose connection
\* has closed has no consumer and no open channel.
C10_NoAutomaticReconnect ==
    \A i \in Instances :
        /\ connects[i] <= inits[i]
        /\ pc[i] \in ConnectPcs => initResult[i].status = "pending"
        /\ link[i] = "closed" => (~consuming[i] /\ chan[i] # "open")

\* C10 witness: the connection of a successfully connected service has closed
\* and the service is idle.
C10_Witness ==
    \E i \in Instances :
        /\ link[i] = "closed"
        /\ pc[i] = "idle"
        /\ initResult[i].status = "resolved"

\* C11: getConnectionStatus returns 'connected' exactly when a connection has
\* been established and is not closed, 'disconnected' before initialisation,
\* after onModuleDestroy and once the connection is closed; url is the
\* configured URL, or amqp://localhost:5672 when none is configured.
C11_StatusReflectsConnection ==
    \A i \in Instances, cfg \in ConfigValues :
        \A closed \in ClosedReads(i) :
            LET r == getConnectionStatus(i, cfg, closed)
            IN /\ r.url = (IF cfg = "" THEN "amqp://localhost:5672" ELSE cfg)
               /\ (r.status = "connected") <=> (link[i] = "open")
               /\ inits[i] = 0 => r.status = "disconnected"
               /\ destroyed[i] => r.status = "disconnected"

\* C12: the k-th tick (k = 0, 1, ...) of a simulation of a device with n
\* stored samples sends a Reading with exactly one sample, the one at index
\* k mod n: the cursor has advanced by one on every tick.
C12_TickSendsKthSample ==
    lastTick.timer # 0 =>
        LET t == lastTick.timer
            samples == xrayData[timers[t].deviceId]
        IN /\ lastTick.data = <<samples[(lastTick.k % Len(samples)) + 1]>>
           /\ timers[t].dataIndex = timers[t].ticks

\* C13: after stopAllSimulations() has returned, and until a new simulation
\* is started, no timer created by simulateDevice is active.
C13_StopAllLeavesNoTimer ==
    sim.op = "stopAllSimulations" =>
        \A t \in 1..Len(timers) : ~timers[t].active

\* C14: once the cleanup function of a simulation has been invoked, its timer
\* is inactive, has fired no tick since the invocation and is not in the
\* registry of active simulations.
C14_CleanupStopsItsTimer ==
    \A t \in 1..Len(timers) :
        timers[t].cancelledAt # -1 =>
            /\ ~timers[t].active
            /\ timers[t].ticks = timers[t].cancelledAt
            /\ \A d \in DOMAIN simulationIntervals : simulationIntervals[d] # t

\* C14 witness: a timer that had ticked was cancelled by its cleanup
\* function, and another timer has ticked since.
C14_Witness ==
    \E t, u \in 1..Len(timers) :
        /\ t # u
        /\ timers[t].cancelledAt >= 1
        /\ timers[u].active
        /\ lastTick.timer = u

\* C15: a tick whose publish fails changes nothing but the tick itself: the
\* timer stays active and registered, and no caller sees the error.
C15_TickErrorSwallowed ==
    [][(lastTick' # lastTick /\ lastTick'.result # "ok") =>
          /\ timers'[lastTick'.timer].active
          /\ timers'[lastTick'.timer].ticks = timers[lastTick'.timer].ticks + 1
          /\ simulationIntervals' = simulationIntervals
          /\ sim' = sim
          /\ call' = call]_vars

\* C15 witness: a tick fired, and failed with 'Channel not initialized',
\* after an earlier tick of the same timer had failed.
C15_Witness ==
    /\ lastTick.result = "Channel not initialized"
    /\ lastTick.k >= 1
    /\ timers[lastTick.timer].dataIndex = 0
    /\ timers[lastTick.timer].active

RECURSIVE Repeat(_, _)
Repeat(x, n) == IF n <= 0 THEN <<>> ELSE <<x>> \o Repeat(x, n - 1)

RECURSIVE DeviceMajor(_, _, _)
\* For the ids from position d on, in input order: count Readings with the
\* full stored sequence for each id of the catalog, nothing for the others.
DeviceMajor(ids, count, d) ==
    IF d > Len(ids) THEN <<>>
    ELSE (IF ids[d] \in DOMAIN xrayData
          THEN Repeat([deviceId |-> ids[d], data |-> xrayData[ids[d]]], count)
          ELSE <<>>)
         \o DeviceMajor(ids, count, d + 1)

KnownEntries(ids) == Cardinality({d \in 1..Len(ids) : ids[d] \in DOMAIN xrayData})

C17_SingleSendsWholeSequence ==
    (call.op = "sendSingleMessage" /\ call.ids[1] \in DOMAIN xrayData) =>
        /\ call.result = [text |-> lastPublish.result, deviceId |-> ""]
        /\ call.result.text # "ok" => (call.sent = <<>> /\ ~lastPublish.enqueued)
        /\ call.result.text = "ok" =>
              /\ call.sent = <<[deviceId |-> call.ids[1], data |-> xrayData[call.ids[1]]]>>
              /\ \E m \in published :
                    /\ m.id = nextMsg - 1
                    /\ m.reading.deviceId = call.ids[1]
                    /\ m.reading.data = xrayData[call.ids[1]]
                    /\ JSONparse(m.content).val.data = xrayData[call.ids[1]]
              /\ \A m \in published : m.id < nextMsg

\* C17 witness: a device with two stored samples was sent and the message is
\* in the queue.
C17_Witness ==
    /\ call.op = "sendSingleMessage"
    /\ call.result.text = "ok"
    /\ Len(call.sent[1].data) = 2
    /\ lastPublish.enqueued

CompleteTriples(reading) ==
    \A k \in 1..Len(reading.data) : Len(reading.data[k][2]) = 3

\* C20: for a Reading with at least one sample and complete position
\* triples, calculateSignalMetrics returns dataLength equal to the number of
\* samples and dataVolume equal to 3 * dataLength.
C20_VolumeIsThreeTimesLength ==
    (metrics.called /\ Len(metrics.input.data) > 0
        /\ CompleteTriples(metrics.input)) =>
        /\ metrics.result.ok
        /\ metrics.result.dto.dataLength = Len(metrics.input.data)
        /\ metrics.result.dto.dataVolume = 3 * metrics.result.dto.dataLength

\* C20 witness: metrics were computed for a Reading of two different
\* complete samples, with dataVolume 6.
C20_Witness ==
    /\ metrics.called
    /\ Len(metrics.input.data) = 2
    /\ CompleteTriples(metrics.input)
    /\ metrics.input.data[1] # metrics.input.data[2]
    /\ metrics.result.dto.dataVolume = 6

\* C21: for a Reading with no samples, calculateSignalMetrics returns
\* dataLength 0, dataVolume 0, averageSpeed 0, maxSpeed 0, minSpeed 0 and
\* coordinates [0, 0].
C21_EmptyReadingAllZero ==
    (metrics.called /\ metrics.input.data = <<>>) =>
        /\ metrics.result.ok
        /\ metrics.result.dto.dataLength = 0
        /\ metrics.result.dto.dataVolume = 0
        /\ metrics.result.dto.averageSpeed.num = 0
        /\ metrics.result.dto.maxSpeed = 0
        /\ metrics.result.dto.minSpeed = 0
        /\ Len(metrics.result.dto.coordinates) = 2
        /\ metrics.result.dto.coordinates[1].num = 0
        /\ metrics.result.dto.coordinates[2].num = 0

\* C21 witness: metrics were computed for a Reading with an empty data array.
C21_Witness ==
    /\ metrics.called
    /\ metrics.input.data = <<>>
    /\ metrics.result.dto.data = <<>>

\* The positions of the samples that carry a speed.
SpeedIdx(data) == {k \in 1..Len(data) : Len(data[k][2]) >= 3}

RECURSIVE SpeedTotal(_, _)
\* The sum of the speeds of the samples at the positions in S.
SpeedTotal(data, S) ==
    IF S = {} THEN 0
    ELSE LET k == CHOOSE x \in S : TRUE
         IN data[k][2][3] + SpeedTotal(data, S \ {k})

C23_ExampleAsStated ==
    (metrics.called /\ metrics.input = ExampleReading) =>
        LET dto == metrics.result.dto
        IN /\ dto.dataLength = 2
           /\ dto.dataVolume = 6
           /\ dto.averageSpeed.num = 1367700 * dto.averageSpeed.den
           /\ dto.maxSpeed = 1531604
           /\ dto.minSpeed = 1203800
           /\ dto.coordinates[1].num * 10 = 513397705 * dto.coordinates[1].den
           /\ dto.coordinates[2].num = 12339217 * dto.coordinates[2].den

\* C23: for the example Reading calculateSignalMetrics returns dataLength 2,
\* dataVolume 6, averageSpeed 1.367702 (the unrounded mean of 1.2038 and
\* 1.531604), maxSpeed 1.531604, minSpeed 1.2038 and coordinates
\* [51.3397705, 12.339217].
C23_ExampleMetrics ==
    (metrics.called /\ metrics.input = ExampleReading) =>
        LET dto == metrics.result.dto
        IN /\ dto.dataLength = 2
           /\ dto.dataVolume = 6
           /\ dto.averageSpeed.num = 1367702 * dto.averageSpeed.den
           /\ dto.maxSpeed = 1531604
           /\ dto.minSpeed = 1203800
           /\ dto.coordinates[1].num * 10 = 513397705 * dto.coordinates[1].den
           /\ dto.coordinates[2].num = 12339217 * dto.coordinates[2].den

\* C23 witness: metrics were computed for the example Reading; the speeds
\* add up to 2.735404 over two samples.
C23_Witness ==
    /\ metrics.called
    /\ metrics.input = ExampleReading
    /\ metrics.result.dto.averageSpeed = [num |-> 2735404, den |-> 2]

\* The documents of the store that a filter's deviceId selects.
OfDevice(S, deviceId) ==
    {x \in S : deviceId.given /\ deviceId.value # "" => x.doc.deviceId = deviceId.value}

\* C25: when startTime and endTime are both supplied, 0 included, findAll
\* returns only records with startTime <= timestamp <= endTime; when one of
\* the two is supplied there is no time filtering; a deviceId filter holds
\* for every record returned as well.
C25_TimeRangeFilter ==
    api.op = "findAll" =>
        LET f == api.filter
            returned == {api.docs[k] : k \in 1..Len(api.docs)}
        IN /\ (f.startTime.given /\ f.endTime.given) =>
                 \A x \in returned : /\ f.startTime.value <= x.doc.timestamp
                                      /\ x.doc.timestamp <= f.endTime.value
           /\ (f.startTime.given # f.endTime.given /\ ~f.limit.given /\ ~f.skip.given) =>
                 returned = OfDevice(signals, f.deviceId)
           /\ returned \subseteq OfDevice(signals, f.deviceId)

\* C26: findByDeviceId(d, f) returns what findAll returns for f with its
\* deviceId set to d, and only records of device d.
C26_ByDeviceIsFindAllScoped ==
    api.op = "findByDeviceId" =>
        /\ api.docs = findAll(signals, [api.filter EXCEPT !.deviceId = api.deviceId])
        /\ \A k \in 1..Len(api.docs) : api.docs[k].doc.deviceId = api.deviceId.value

\* C26 witness: a query for one device with a time range and pagination
\* returned a record while the store held a record of another device.
C26_Witness ==
    /\ api.op = "findByDeviceId"
    /\ Len(api.docs) = 1
    /\ api.filter.startTime.value = 2
    /\ api.filter.endTime.value = 2
    /\ api.filter.limit.given
    /\ \E x \in signals : x.doc.deviceId # api.deviceId.value

\* C27: findOne, updateSignal and deleteSignal called with an id that is
\* not in the store fail with 'Signal with ID <id> not found' and leave the
\* store unchanged; so they do for an id that deleteSignal has removed.
C27_AbsentIdIsNotFound ==
    [][(/\ api' # api
        /\ api'.op \in {"findOne", "updateSignal", "deleteSignal"}
        /\ ~(api'.id.valid /\ \E x \in signals : x._id = api'.id.n)) =>
          /\ api'.status = "NotFound"
          /\ signals' = signals]_vars

\* C28: getStatistics never fails for want of a matching record: with none
\* it returns all seven values 0; otherwise totalSignals is the number of
\* matching records and totalDevices the number of distinct deviceIds among
\* them, 1 when the call is scoped to a device.
C28_StatisticsCounts ==
    api.op = "getStatistics" =>
        LET match == {x \in signals :
                         api.deviceId.given => x.doc.deviceId = api.deviceId.value}
            st == api.stats
        IN /\ api.status = "ok"
           /\ IF match = {}
              THEN /\ st.totalSignals = 0 /\ st.totalDevices = 0
                   /\ st.averageDataLength.num = 0 /\ st.averageDataVolume.num = 0
                   /\ st.averageSpeed.num = 0 /\ st.maxSpeed = 0 /\ st.minSpeed = 0
              ELSE /\ st.totalSignals = Cardinality(match)
                   /\ st.totalDevices = Cardinality({x.doc.deviceId : x \in match})
                   /\ api.deviceId.given => st.totalDevices = 1

\* C28 witness: statistics scoped to a device with two records, beside a
\* record of another device.
C28_Witness ==
    /\ api.op = "getStatistics"
    /\ api.deviceId = Opt(HexDevice)
    /\ api.stats.totalSignals = 2
    /\ api.stats.totalDevices = 1

\* C29: every record in the store has dataVolume = 3 * dataLength, whatever
\* createSignal and updateSignal calls were made.
C29_StoredVolumeConsistent ==
    \A x \in signals : x.doc.dataVolume = 3 * x.doc.dataLength

C30_CatalogReadOnly ==
    [][/\ DOMAIN xrayData' = DOMAIN xrayData
       /\ \A d \in DOMAIN xrayData : xrayData'[d] = xrayData[d]]_vars

\* A tick and a send have each published from the catalog, and the
\* simulations were then stopped, with the catalog as it was initialised.
C30_Witness ==
    /\ sim.op = "stopAllSimulations"
    /\ lastTick.result = "ok"
    /\ call.op # "none" /\ call.sent # <<>>
    /\ \E t \in 1..Len(timers) : ~timers[t].active
    /\ getAvailableDevices = <<HexDevice, HexDevice2>>
    /\ xrayData = SampleCatalog

\* C31: when x-ray.json is absent, unreadable or not valid JSON, the
\* catalog after loading is exactly the built-in sample device
\* '66bb584d4ae73e488c30a072' with its three samples, and
\* getAvailableDevices lists that device alone.
C31_FallbackToSampleDevice ==
    (/\ load.called
     /\ \/ ~load.file.exists
        \/ ~load.file.readable
        \/ ~JSONparse(load.file.content).ok)
    => /\ xrayData = createSampleData
       /\ DOMAIN xrayData = {"66bb584d4ae73e488c30a072"}
       /\ Len(xrayData["66bb584d4ae73e488c30a072"]) = 3
       /\ getAvailableDevices = <<"66bb584d4ae73e488c30a072">>

\* x-ray.json was read but is no JSON document, and a send has since
\* published from the catalog.
C31_Witness ==
    /\ load.called
    /\ load.file.exists /\ load.file.readable
    /\ ~JSONparse(load.file.content).ok
    /\ xrayData = createSampleData
    /\ call.op = "sendSingleMessage" /\ call.ids = <<HexDevice>>

\* C32: simulateDevice for a deviceId that already has a running simulation
\* is not rejected: it makes a new timer and the registry entry of the
\* deviceId becomes that timer, while the prior timer stays as it was,
\* active, and is in the registry no more; a stopSimulation(deviceId) that
\* finds an entry stops the registered (newest) timer only.
C32_SecondSimulationReplaces ==
    [][/\ (/\ Len(timers') = Len(timers) + 1
           /\ sim'.arg \in DOMAIN simulationIntervals
           /\ timers[simulationIntervals[sim'.arg]].active) =>
              LET prior == simulationIntervals[sim'.arg]
              IN /\ sim'.op = "simulateDevice" /\ sim'.result = Plain("ok")
                 /\ simulationIntervals'[sim'.arg] = Len(timers')
                 /\ timers'[prior] = timers[prior]
                 /\ timers'[prior].active
                 /\ \A d \in DOMAIN simulationIntervals' : simulationIntervals'[d] # prior
       /\ (/\ sim'.op = "stopSimulation"
           /\ simulationIntervals' # simulationIntervals) =>
              /\ ~timers'[simulationIntervals[sim'.arg]].active
              /\ \A t \in 1..Len(timers) :
                    t # simulationIntervals[sim'.arg] => timers'[t] = timers[t]]_vars

\* Two simulations of one device were started, stopSimulation stopped the
\* second, and the first has ticked since with nothing in the registry.
C32_Witness ==
    /\ Len(timers) = 2
    /\ timers[1].deviceId = timers[2].deviceId
    /\ sim.op = "stopSimulation" /\ sim.arg = timers[1].deviceId
    /\ ~timers[2].active /\ timers[2].ticks = 0
    /\ timers[1].active /\ timers[1].ticks >= 1
    /\ lastTick.timer = 1 /\ lastTick.result = "ok"
    /\ simulationIntervals = <<>>

\* C33: stopping one simulation affects only that simulation: a step of a
\* cancellation handle or of stopSimulation(d) that changes anything stops
\* one timer, and every other timer keeps its state and cursor and, if the
\* registry held it, its registry entry.
C33_StopAffectsOnlyItsSimulation ==
    [][(/\ sim'.op \in {"cleanup", "stopSimulation"}
        /\ lastTick' = lastTick
        /\ <<timers', simulationIntervals'>> # <<timers, simulationIntervals>>) =>
          \E t \in 1..Len(timers) :
              /\ ~timers'[t].active
              /\ \A u \in 1..Len(timers) \ {t} :
                    /\ timers'[u] = timers[u]
                    /\ \A d \in DOMAIN simulationIntervals :
                          simulationIntervals[d] = u =>
                              /\ d \in DOMAIN simulationIntervals'
                              /\ simulationIntervals'[d] = u]_vars

C35_OneDecisionPerDelivery ==
    [][/\ (/\ nextMsg' = nextMsg
           /\ \/ emitted' # emitted \/ handled' # handled
              \/ acked' # acked \/ nacked' # nacked \/ queue' # queue) =>
              /\ Cardinality(acked' \ acked) + Cardinality(nacked' \ nacked) = 1
              /\ \A n \in nacked' \ nacked :
                    ~n.allUpTo /\ n.requeue /\ n.id \notin acked'
              /\ \A a \in acked' \ acked : \A n \in nacked' : n.id # a
       /\ (/\ consuming[SignalsInstance] /\ ~consuming'[SignalsInstance]
           /\ chan'[SignalsInstance] = "open") =>
              /\ acked' = acked /\ nacked' = nacked
              /\ emitted' = emitted /\ handled' = handled
              /\ queue' = queue]_vars

\* One message was acked, another was nacked and stays queued, and the
\* consumer was then cancelled on the open channel.
C35_Witness ==
    /\ acked # {}
    /\ \E n \in nacked : n.id \notin acked /\ \E k \in 1..Len(queue) : queue[k].id = n.id
    /\ initResult[SignalsInstance].status = "resolved"
    /\ ~consuming[SignalsInstance]
    /\ chan[SignalsInstance] = "open"

\* The payload decodes into a Reading: a JSON object with deviceId, data
\* and time.
IsReading(content) ==
    /\ JSONparse(content).ok
    /\ {"deviceId", "data", "time"} \subseteq DOMAIN JSONparse(content).val

\* C36: only payloads that decode into a Reading are acknowledged: a
\* message whose payload is not a Reading (not JSON, or JSON such as {}) is
\* never acked and no SignalRecord is stored for it.
C36_OnlyReadingsAcked ==
    \A m \in published :
        ~IsReading(m.content) =>
            /\ m.id \notin acked
            /\ m.id \notin {h.id : h \in inflight}

\* C37: with the consumer connected and every payload a decodable Reading,
\* every message that is ready on x-ray-queue is eventually acknowledged,
\* and the queue eventually becomes empty.
C37_QueueDrains ==
    /\ \A id \in 1..MaxMsgs :
          (/\ consuming[SignalsInstance]
           /\ \E k \in 1..Len(queue) : queue[k].id = id) ~> (id \in acked)
    /\ consuming[SignalsInstance] ~> (queue = <<>>)

\* Two Readings were published to the running consumer, both were acked
\* and the queue is empty.
C37_Witness ==
    /\ consuming[SignalsInstance]
    /\ Cardinality(acked) >= 2
    /\ \A m \in published : m.id \in acked /\ IsReading(m.content)
    /\ queue = <<>>

\* C38: after an onModuleInit that was rejected because a step of connect()
\* failed, the service is disconnected: it refers to no connection and no
\* channel (publishXRayData fails with 'Channel not initialized') and
\* getConnectionStatus reports 'disconnected'.
C38_FailedConnectLeavesDisconnected ==
    \A i \in Instances :
        initResult[i].status = "rejected" =>
            /\ connection[i] = NULL
            /\ channel[i] = NULL
            /\ \A cfg \in ConfigValues : \A closed \in ClosedReads(i) :
                  getConnectionStatus(i, cfg, closed).status = "disconnected"

\* C39: once onModuleDestroy has returned, whether or not a close call
\* failed, the service holds neither channel nor connection
\* (publishXRayData fails with 'Channel not initialized') and
\* getConnectionStatus reports 'disconnected'.
C39_DestroyLeavesNothingHeld ==
    \A i \in Instances :
        destroyed[i] =>
            /\ channel[i] = NULL
            /\ connection[i] = NULL
            /\ \A cfg \in ConfigValues : \A closed \in ClosedReads(i) :
                  getConnectionStatus(i, cfg, closed).status = "disconnected"

\* C40: when a request of the send-bulk endpoint has completed, the
\* totalMessages of its response equals the number of messages that
\* sendBulkMessages published for it, for every list of deviceIds and
\* every count of the body.
C40_TotalMessagesIsPublished ==
    \A c \in CountArgs :
        (/\ call.op = "sendBulkMessages"
         /\ ~call.running
         /\ call.result = Plain("ok")
         /\ call.arg = Opt(EndpointCount(c))) =>
            SendBulkResponse(call.ids, c).totalMessages = Len(call.sent)

====
